---------------------------- MODULE Spec2Model ----------------------------
(***************************************************************************)
(* A model of the streaming message parser (app/lib/runtime/               *)
(* message-parser.ts) and of the action runner (app/lib/runtime/           *)
(* action-runner.ts).                                                      *)
(*                                                                         *)
(* A JavaScript string is a sequence of one-character strings, indexed     *)
(* from 1 here and from 0 in the source: the operators below take and      *)
(* return the source's 0-based offsets.  An optional value (undefined in   *)
(* the source) is None, a present one Some(v).                             *)
(***************************************************************************)
EXTENDS Integers, Sequences, FiniteSets

None == <<>>
Some(v) == <<v>>
Get(o) == o[1]

SetMax(S) == CHOOSE x \in S : \A y \in S : y <= x

(***************************************************************************)
(* The literals of the source.                                             *)
(***************************************************************************)
ARTIFACT_TAG_OPEN ==
  <<"<","b","o","l","t","A","r","t","i","f","a","c","t">>
ARTIFACT_TAG_CLOSE ==
  <<"<","/","b","o","l","t","A","r","t","i","f","a","c","t",">">>
ARTIFACT_ACTION_TAG_OPEN ==
  <<"<","b","o","l","t","A","c","t","i","o","n">>
ARTIFACT_ACTION_TAG_CLOSE ==
  <<"<","/","b","o","l","t","A","c","t","i","o","n",">">>
\* A SANY string cannot hold the backquote (U+0060): "~" stands for it.
Backquote == "~"
StrFence == <<Backquote, Backquote, Backquote>>
StrLt == <<"&","l","t",";">>
StrGt == <<"&","g","t",";">>
StrMd == <<".","m","d">>
StrFile == <<"f","i","l","e">>
StrShell == <<"s","h","e","l","l">>
StrStart == <<"s","t","a","r","t">>
StrPocketbase == <<"p","o","c","k","e","t","b","a","s","e">>
StrCollection == <<"c","o","l","l","e","c","t","i","o","n">>
StrQuery == <<"q","u","e","r","y">>
AttrType == <<"t","y","p","e">>
AttrOperation == <<"o","p","e","r","a","t","i","o","n">>
AttrFilePath == <<"f","i","l","e","P","a","t","h">>
AttrTitle == <<"t","i","t","l","e">>
AttrId == <<"i","d">>
StrDivOpen ==
  <<"<","d","i","v"," ","c","l","a","s","s","=","\"","_","_","b","o","l","t","A","r","t","i",
    "f","a","c","t","_","_","\"">>
StrDivClose == <<">","<","/","d","i","v",">">>
StrData == <<"d","a","t","a","-">>
KeyMessageId == <<"m","e","s","s","a","g","e","I","d">>

(***************************************************************************)
(* Character classes of the regular expressions: \s, \w, [a-z], [A-Z] and  *)
(* the case folding of the flag i.                                         *)
(***************************************************************************)
UpperChars ==
  <<"A","B","C","D","E","F","G","H","I","J","K","L","M",
    "N","O","P","Q","R","S","T","U","V","W","X","Y","Z">>
LowerChars ==
  <<"a","b","c","d","e","f","g","h","i","j","k","l","m",
    "n","o","p","q","r","s","t","u","v","w","x","y","z">>
DigitChars == <<"0","1","2","3","4","5","6","7","8","9">>
Range(s) == {s[k] : k \in 1..Len(s)}
UpperSet == Range(UpperChars)
LowerSet == Range(LowerChars)
SpaceSet == {" ", "\n", "\t", "\r"}
WordSet == UpperSet \cup LowerSet \cup Range(DigitChars) \cup {"_"}
LowerOf == [c \in UpperSet |-> LowerChars[CHOOSE k \in 1..26 : UpperChars[k] = c]]
IsUpper(c) == c \in UpperSet
IsLower(c) == c \in LowerSet
IsSpace(c) == c \in SpaceSet
IsWord(c) == c \in WordSet
ToLower(c) == IF c \in UpperSet THEN LowerOf[c] ELSE c
LowerCase(s) == [k \in 1..Len(s) |-> ToLower(s[k])]

(***************************************************************************)
(* String.prototype.slice, indexOf, startsWith, endsWith, trim.            *)
(***************************************************************************)
Slice(s, a, b) == SubSeq(s, a + 1, IF b > Len(s) THEN Len(s) ELSE b)
SliceFrom(s, a) == SubSeq(s, a + 1, Len(s))
MatchAt(s, pat, k) ==
  /\ k >= 0
  /\ k + Len(pat) <= Len(s)
  /\ \A j \in 1..Len(pat) : s[k + j] = pat[j]
IndexOf(s, pat, from) ==
  LET at == {k \in from..(Len(s) - Len(pat)) : MatchAt(s, pat, k)}
  IN IF at = {} THEN -1 ELSE CHOOSE k \in at : \A j \in at : k <= j
EndsWith(s, pat) == MatchAt(s, pat, Len(s) - Len(pat))
\* the first and the last character of s that is no white space (0: none)
RECURSIVE FirstSolid(_, _)
FirstSolid(s, k) ==
  IF k > Len(s) THEN 0 ELSE IF ~IsSpace(s[k]) THEN k ELSE FirstSolid(s, k + 1)
RECURSIVE LastSolid(_, _)
LastSolid(s, k) ==
  IF k < 1 THEN 0 ELSE IF ~IsSpace(s[k]) THEN k ELSE LastSolid(s, k - 1)
Trim(s) ==
  IF FirstSolid(s, 1) = 0 THEN <<>>
  ELSE SubSeq(s, FirstSolid(s, 1), LastSolid(s, Len(s)))

RECURSIVE ReplaceFrom(_, _, _, _)
ReplaceFrom(s, pat, rep, k) ==
  IF k >= Len(s) THEN <<>>
  ELSE IF MatchAt(s, pat, k) THEN rep \o ReplaceFrom(s, pat, rep, k + Len(pat))
  ELSE <<s[k + 1]>> \o ReplaceFrom(s, pat, rep, k + 1)
ReplaceAll(s, pat, rep) == ReplaceFrom(s, pat, rep, 0)

RECURSIVE NatToString(_)
NatToString(n) ==
  IF n < 10 THEN <<DigitChars[n + 1]>>
  ELSE NatToString(n \div 10) \o <<DigitChars[(n % 10) + 1]>>
NumberToString(n) == IF n < 0 THEN <<"-">> \o NatToString(0 - n) ELSE NatToString(n)

(***************************************************************************)
(* cleanoutMarkdownSyntax: the content is matched against the pattern       *)
(*   ^ \s* FENCE \w* \n ( [\s\S]*? ) \n \s* FENCE \s* $                    *)
(* and group 1 is returned on a match, the content otherwise.  The leading *)
(* white space is taken whole (a backquote is none), then the fence, then  *)
(* the whole run of word characters, which a line feed must follow at h;   *)
(* the closing fence is the last three solid characters, and the lazy      *)
(* group ends at the first line feed p after h from which only white space *)
(* runs up to that fence.                                                  *)
(***************************************************************************)
RECURSIVE FirstNonWord(_, _)
FirstNonWord(s, k) ==
  IF k > Len(s) THEN 0 ELSE IF ~IsWord(s[k]) THEN k ELSE FirstNonWord(s, k + 1)
\* the first line feed in p..last from which only white space runs up to last
RECURSIVE FenceBreak(_, _, _)
FenceBreak(s, p, last) ==
  IF p > last THEN 0
  ELSE IF s[p] = "\n" /\ \A q \in (p + 1)..last : IsSpace(s[q]) THEN p
  ELSE FenceBreak(s, p + 1, last)
FencedGroup(content, a, e, h) ==
  IF a = 0 THEN content
  ELSE IF ~MatchAt(content, StrFence, a - 1) THEN content
  ELSE IF h = 0 THEN content
  ELSE IF content[h] # "\n" THEN content
  ELSE IF ~(e - 3 >= h + 1 /\ MatchAt(content, StrFence, e - 3)) THEN content
  ELSE IF FenceBreak(content, h + 1, e - 3) = 0 THEN content
  ELSE SubSeq(content, h + 1, FenceBreak(content, h + 1, e - 3) - 1)
FencedAfter(content, a, e) ==
  FencedGroup(content, a, e, IF a = 0 THEN 0 ELSE FirstNonWord(content, a + 3))
cleanoutMarkdownSyntax(content) ==
  FencedAfter(content, FirstSolid(content, 1), LastSolid(content, Len(content)))

cleanEscapedTags(content) ==
  ReplaceAll(ReplaceAll(content, StrLt, <<"<">>), StrGt, <<">">>)

(***************************************************************************)
(* #extractAttribute: the tag is matched, ignoring case, against the name   *)
(* followed by an equals sign and a quoted value without quotes in it.     *)
(* The match is the leftmost place where the name, the equals sign, an     *)
(* opening quote and a later closing quote stand; the value runs to the    *)
(* first quote after the opening one.                                      *)
(***************************************************************************)
RECURSIVE AttributeFrom(_, _, _, _)
AttributeFrom(tag, low, opener, k) ==
  IF k + Len(opener) > Len(tag) THEN None
  ELSE IF MatchAt(low, opener, k) /\ IndexOf(tag, <<"\"">>, k + Len(opener)) # -1
  THEN Some(Slice(tag, k + Len(opener), IndexOf(tag, <<"\"">>, k + Len(opener))))
  ELSE AttributeFrom(tag, low, opener, k + 1)
extractAttribute(tag, attributeName) ==
  AttributeFrom(tag, LowerCase(tag), LowerCase(attributeName) \o <<"=", "\"">>, 0)

(***************************************************************************)
(* createArtifactElement({messageId}), with camelToDashCase and            *)
(* JSON.stringify of a string.                                             *)
(***************************************************************************)
RECURSIVE DashFrom(_, _)
DashFrom(s, k) ==
  IF k > Len(s) THEN <<>>
  ELSE IF k < Len(s) /\ IsLower(s[k]) /\ IsUpper(s[k + 1])
       THEN <<s[k], "-">> \o DashFrom(s, k + 1)
  ELSE <<s[k]>> \o DashFrom(s, k + 1)
camelToDashCase(input) == LowerCase(DashFrom(input, 1))

RECURSIVE EscapeFrom(_, _)
EscapeFrom(s, k) ==
  IF k > Len(s) THEN <<>>
  ELSE IF s[k] \in {"\"", "\\"} THEN <<"\\", s[k]>> \o EscapeFrom(s, k + 1)
  ELSE IF s[k] = "\n" THEN <<"\\", "n">> \o EscapeFrom(s, k + 1)
  ELSE IF s[k] = "\t" THEN <<"\\", "t">> \o EscapeFrom(s, k + 1)
  ELSE IF s[k] = "\r" THEN <<"\\", "r">> \o EscapeFrom(s, k + 1)
  ELSE <<s[k]>> \o EscapeFrom(s, k + 1)
JsonStringify(s) == <<"\"">> \o EscapeFrom(s, 1) \o <<"\"">>

createArtifactElement(messageId) ==
  StrDivOpen \o <<" ">> \o StrData \o camelToDashCase(KeyMessageId) \o <<"=">>
    \o JsonStringify(messageId) \o StrDivClose

(***************************************************************************)
(* MessageState, and the data handed to the callbacks.  An action is the   *)
(* record of its attributes; a key that is absent or undefined is None.    *)
(***************************************************************************)
NoAction == [type |-> None, content |-> <<>>, filePath |-> None, operation |-> None]

NewMessageState ==
  [position |-> 0, insideAction |-> FALSE, insideArtifact |-> FALSE,
   currentArtifact |-> None, currentAction |-> NoAction, actionId |-> 0,
   lastInput |-> <<>>]

ArtifactCallbackData(kind, messageId, artifact) ==
  [kind |-> kind, messageId |-> messageId, artifactId |-> artifact.id,
   artifact |-> Some(artifact), actionId |-> None, action |-> None]

ActionCallbackData(kind, messageId, artifact, actionId, action) ==
  [kind |-> kind, messageId |-> messageId, artifactId |-> artifact.id,
   artifact |-> None, actionId |-> Some(NumberToString(actionId)),
   action |-> Some(action)]

\* #parseActionTag as it would be without the test of the operation
parseActionTagAnyOperation(input, actionOpenIndex, actionEndIndex) ==
  LET actionTag == Slice(input, actionOpenIndex, actionEndIndex + 1)
      actionType == extractAttribute(actionTag, AttrType)
      operation == extractAttribute(actionTag, AttrOperation)
      filePath == extractAttribute(actionTag, AttrFilePath)
      base == [NoAction EXCEPT !.type = actionType]
  IN IF actionType = Some(StrPocketbase)
     THEN [threw |-> FALSE,
           action |-> [base EXCEPT !.operation = operation,
                         !.filePath = IF operation = Some(StrCollection)
                                         /\ filePath # None /\ filePath # Some(<<>>)
                                      THEN filePath ELSE None]]
     ELSE IF actionType = Some(StrFile)
     THEN [threw |-> FALSE, action |-> [base EXCEPT !.filePath = filePath]]
     ELSE [threw |-> FALSE, action |-> base]

(***************************************************************************)
(* #parseActionTag: the action of an opening tag, or the throw of an       *)
(* external-service tag whose operation is missing or unknown.             *)
(***************************************************************************)
parseActionTag(input, actionOpenIndex, actionEndIndex) ==
  LET actionTag == Slice(input, actionOpenIndex, actionEndIndex + 1)
      actionType == extractAttribute(actionTag, AttrType)
      operation == extractAttribute(actionTag, AttrOperation)
      filePath == extractAttribute(actionTag, AttrFilePath)
      base == [NoAction EXCEPT !.type = actionType]
  IN IF actionType = Some(StrPocketbase)
     THEN IF operation = None \/ operation = Some(<<>>)
             \/ operation \notin {Some(StrCollection), Some(StrQuery)}
          THEN [threw |-> TRUE, action |-> base]
          ELSE [threw |-> FALSE,
                action |-> [base EXCEPT !.operation = operation,
                              !.filePath = IF operation = Some(StrCollection)
                                              /\ filePath # None /\ filePath # Some(<<>>)
                                           THEN filePath ELSE None]]
     ELSE IF actionType = Some(StrFile)
     THEN [threw |-> FALSE, action |-> [base EXCEPT !.filePath = filePath]]
     ELSE [threw |-> FALSE, action |-> base]

(***************************************************************************)
(* The content of a close event (parse, lines 112-124; finalize, lines     *)
(* 303-314): trimmed; for a file action fence-stripped and unescaped       *)
(* unless the path ends in .md, and one line feed appended.                *)
(***************************************************************************)
CleanFileContent(content, filePath) ==
  IF filePath # None /\ EndsWith(Get(filePath), StrMd) THEN content
  ELSE cleanEscapedTags(cleanoutMarkdownSyntax(content))

(***************************************************************************)
(* One turn of the loop of parse (lines 96-276) on the machine             *)
(*   c = [st, i, output, events, openedAt, status]                         *)
(* where st is the message's state, i the cursor, output and events what   *)
(* the call has produced so far, openedAt the offset behind the last       *)
(* action tag the call opened (-1: none), and status "run", "break" (the   *)
(* loop was left) or "threw".                                              *)
(***************************************************************************)
\* inside an action (lines 104-166), closeIndex being where its close tag is
InsideActionAt(c, messageId, input, closeIndex) ==
  LET st == c.st
      currentArtifact == Get(st.currentArtifact)
      currentAction == st.currentAction
      isFile == currentAction.type = Some(StrFile)
      raw == currentAction.content \o Slice(input, c.i, closeIndex)
  IN IF closeIndex # -1
     THEN IF isFile /\ currentAction.filePath = None
          THEN \* currentAction.filePath.endsWith on undefined: a TypeError
               [c EXCEPT !.st.currentAction.content = raw, !.status = "threw"]
          ELSE [c EXCEPT
                  !.events = @ \o <<ActionCallbackData("actionClose", messageId,
                    currentArtifact, st.actionId - 1,
                    [currentAction EXCEPT !.content =
                       IF isFile
                       THEN CleanFileContent(Trim(raw), currentAction.filePath)
                              \o <<"\n">>
                       ELSE Trim(raw)])>>,
                  !.st.insideAction = FALSE,
                  !.st.currentAction = NoAction,
                  !.i = closeIndex + Len(ARTIFACT_ACTION_TAG_CLOSE)]
     ELSE IF isFile
          THEN IF currentAction.filePath = None
               THEN [c EXCEPT !.status = "threw"]
               ELSE [c EXCEPT
                       !.events = @ \o <<ActionCallbackData("actionStream", messageId,
                         currentArtifact, st.actionId - 1,
                         [currentAction EXCEPT !.content =
                            CleanFileContent(SliceFrom(input, c.i),
                                             currentAction.filePath)])>>,
                       !.status = "break"]
          ELSE [c EXCEPT !.status = "break"]

InsideActionStep(c, messageId, input) ==
  InsideActionAt(c, messageId, input, IndexOf(input, ARTIFACT_ACTION_TAG_CLOSE, c.i))

\* the opening of an action as it would be were actionId incremented twice
ActionOpenAtCountsTwice(c, messageId, input, actionOpenIndex, actionEndIndex, parsed) ==
  IF parsed.threw
  THEN [c EXCEPT !.st.insideAction = TRUE, !.status = "threw"]
  ELSE [c EXCEPT
          !.st.insideAction = TRUE,
          !.st.currentAction = parsed.action,
          !.events = @ \o <<ActionCallbackData("actionOpen", messageId,
                              Get(c.st.currentArtifact), c.st.actionId,
                              parsed.action)>>,
          !.st.actionId = @ + 2,
          !.openedAt = actionEndIndex + 1,
          !.i = actionEndIndex + 1]

\* the opening of an action as it would be were actionId not incremented
ActionOpenAtSameId(c, messageId, input, actionOpenIndex, actionEndIndex, parsed) ==
  IF parsed.threw
  THEN [c EXCEPT !.st.insideAction = TRUE, !.status = "threw"]
  ELSE [c EXCEPT
          !.st.insideAction = TRUE,
          !.st.currentAction = parsed.action,
          !.events = @ \o <<ActionCallbackData("actionOpen", messageId,
                              Get(c.st.currentArtifact), c.st.actionId,
                              parsed.action)>>,
          !.openedAt = actionEndIndex + 1,
          !.i = actionEndIndex + 1]

\* an opening action tag that runs from actionOpenIndex to actionEndIndex
\* (lines 174-186)
ActionOpenAt(c, messageId, input, actionOpenIndex, actionEndIndex, parsed) ==
  IF parsed.threw
  THEN [c EXCEPT !.st.insideAction = TRUE, !.status = "threw"]
  ELSE [c EXCEPT
          !.st.insideAction = TRUE,
          !.st.currentAction = parsed.action,
          !.events = @ \o <<ActionCallbackData("actionOpen", messageId,
                              Get(c.st.currentArtifact), c.st.actionId,
                              parsed.action)>>,
          !.st.actionId = @ + 1,
          !.openedAt = actionEndIndex + 1,
          !.i = actionEndIndex + 1]

\* inside an artifact and outside an action (lines 167-200)
InsideArtifactAt(c, messageId, input, actionOpenIndex, artifactCloseIndex, actionEndIndex) ==
  IF actionOpenIndex # -1
     /\ (artifactCloseIndex = -1 \/ actionOpenIndex < artifactCloseIndex)
  THEN IF actionEndIndex # -1
       THEN ActionOpenAt(c, messageId, input, actionOpenIndex, actionEndIndex,
                         parseActionTag(input, actionOpenIndex, actionEndIndex))
       ELSE [c EXCEPT !.status = "break"]
  ELSE IF artifactCloseIndex # -1
  THEN [c EXCEPT
          !.events = @ \o <<ArtifactCallbackData("artifactClose", messageId,
                                                 Get(c.st.currentArtifact))>>,
          !.st.insideArtifact = FALSE,
          !.st.currentArtifact = None,
          !.i = artifactCloseIndex + Len(ARTIFACT_TAG_CLOSE)]
  ELSE [c EXCEPT !.status = "break"]

InsideArtifactFor(c, messageId, input, actionOpenIndex) ==
  InsideArtifactAt(c, messageId, input, actionOpenIndex,
                   IndexOf(input, ARTIFACT_TAG_CLOSE, c.i),
                   IF actionOpenIndex = -1 THEN -1
                   ELSE IndexOf(input, <<">">>, actionOpenIndex))

InsideArtifactStep(c, messageId, input) ==
  InsideArtifactFor(c, messageId, input, IndexOf(input, ARTIFACT_ACTION_TAG_OPEN, c.i))

(***************************************************************************)
(* Outside an artifact, at a "<" that no "/" follows (lines 201-267).  The *)
(* inner loop reads on while the text agrees with ARTIFACT_TAG_OPEN:       *)
(* common is how many characters from i agree.                             *)
(***************************************************************************)
RECURSIVE CommonPrefix(_, _, _, _)
CommonPrefix(input, i, tag, l) ==
  IF l < Len(tag) /\ i + l < Len(input) /\ input[i + l + 1] = tag[l + 1]
  THEN CommonPrefix(input, i, tag, l + 1)
  ELSE l

\* the artifact tag that runs from i to openTagEnd
ArtifactOpenAt(c, messageId, input, openTagEnd, currentArtifact) ==
  [c EXCEPT
     !.st.insideArtifact = TRUE,
     !.st.currentArtifact = Some(currentArtifact),
     !.events = @ \o <<ArtifactCallbackData("artifactOpen", messageId,
                                            currentArtifact)>>,
     !.output = @ \o createArtifactElement(messageId),
     !.i = openTagEnd + 1]

ArtifactOfTag(artifactTag) ==
  [id |-> extractAttribute(artifactTag, AttrId),
   title |-> extractAttribute(artifactTag, AttrTitle),
   type |-> extractAttribute(artifactTag, AttrType)]

\* the text from i to j is ARTIFACT_TAG_OPEN
FullTagAt(c, messageId, input, j, openTagEnd) ==
  IF j + 1 < Len(input) /\ input[j + 2] # ">" /\ input[j + 2] # " "
  THEN [c EXCEPT !.output = @ \o Slice(input, c.i, j + 1), !.i = j + 1]
  ELSE IF openTagEnd # -1
  THEN ArtifactOpenAt(c, messageId, input, openTagEnd,
                      ArtifactOfTag(Slice(input, c.i, openTagEnd + 1)))
  ELSE [c EXCEPT !.status = "break"]

\* the scan of a possible tag as it would be did it not wait for more input
OpenTagAtNoWait(c, messageId, input, common) ==
  IF common = Len(ARTIFACT_TAG_OPEN)
  THEN FullTagAt(c, messageId, input, c.i + common - 1,
                 IndexOf(input, <<">">>, c.i + common - 1))
  ELSE [c EXCEPT !.output = @ \o Slice(input, c.i, c.i + common + 1),
                 !.i = c.i + common + 1]

\* the scan of a possible tag from i (lines 202-267): the tag, prose, or a
\* wait for more input
OpenTagAt(c, messageId, input, common) ==
  IF common = Len(ARTIFACT_TAG_OPEN)
  THEN FullTagAt(c, messageId, input, c.i + common - 1,
                 IndexOf(input, <<">">>, c.i + common - 1))
  ELSE IF c.i + common < Len(input)
  THEN \* the character at i + common is not the tag's: the text is prose
       [c EXCEPT !.output = @ \o Slice(input, c.i, c.i + common + 1),
                 !.i = c.i + common + 1]
  ELSE \* the input ends inside what may still become the tag
       [c EXCEPT !.status = "break"]

OpenTagStep(c, messageId, input) ==
  OpenTagAt(c, messageId, input, CommonPrefix(input, c.i, ARTIFACT_TAG_OPEN, 0))

ParseStep(c, messageId, input) ==
  IF c.st.insideArtifact
  THEN IF c.st.insideAction
       THEN InsideActionStep(c, messageId, input)
       ELSE InsideArtifactStep(c, messageId, input)
  ELSE IF input[c.i + 1] = "<" /\ ~(c.i + 1 < Len(input) /\ input[c.i + 2] = "/")
  THEN OpenTagStep(c, messageId, input)
  ELSE [c EXCEPT !.output = @ \o <<input[c.i + 1]>>, !.i = @ + 1]

RECURSIVE ParseLoop(_, _, _)
ParseLoop(c, messageId, input) ==
  IF c.status # "run" \/ c.i >= Len(input) THEN c
  ELSE ParseLoop(ParseStep(c, messageId, input), messageId, input)

(***************************************************************************)
(* parse(messageId, input) on the message's state (None: no state yet):    *)
(* the state it leaves, the fragment it returns, the callbacks it fires    *)
(* and whether it threw.  The cursor is saved on a normal return only.     *)
(***************************************************************************)
\* parse as it would be were the cursor saved at the end of the input
ParseReturnAtEnd(c) ==
  IF c.status = "threw"
  THEN [state |-> c.st, output |-> <<>>, events |-> c.events,
        openedAt |-> c.openedAt, threw |-> TRUE]
  ELSE [state |-> [c.st EXCEPT !.position = Len(c.st.lastInput)],
        output |-> c.output, events |-> c.events, openedAt |-> c.openedAt,
        threw |-> FALSE]

\* the end of parse (lines 278-280): the cursor is saved, unless it threw
ParseReturn(c) ==
  IF c.status = "threw"
  THEN [state |-> c.st, output |-> <<>>, events |-> c.events,
        openedAt |-> c.openedAt, threw |-> TRUE]
  ELSE [state |-> [c.st EXCEPT !.position = c.i], output |-> c.output,
        events |-> c.events, openedAt |-> c.openedAt, threw |-> FALSE]

ParseFrom(st, messageId, input) ==
  ParseReturn(ParseLoop([st |-> [st EXCEPT !.lastInput = input],
                         i |-> st.position, output |-> <<>>, events |-> <<>>,
                         openedAt |-> -1, status |-> "run"],
                        messageId, input))

parse(state, messageId, input) ==
  ParseFrom(IF state = None THEN NewMessageState ELSE Get(state), messageId, input)

(***************************************************************************)
(* finalize(messageId) on a message that has a state: the state it leaves  *)
(* and the callbacks it fires.                                             *)
(***************************************************************************)
finalize(st, messageId) ==
  LET currentAction == st.currentAction
      trimmed == Trim(SliceFrom(st.lastInput, st.position))
      content == IF currentAction.type = Some(StrFile)
                 THEN CleanFileContent(trimmed, currentAction.filePath) \o <<"\n">>
                 ELSE trimmed
      closesAction == st.insideAction /\ st.currentArtifact # None
      closesArtifact == st.insideArtifact /\ st.currentArtifact # None
      actionEvents ==
        IF closesAction
        THEN <<ActionCallbackData("actionClose", messageId, Get(st.currentArtifact),
                                  st.actionId - 1,
                                  [currentAction EXCEPT !.content = content])>>
        ELSE <<>>
      artifactEvents ==
        IF closesArtifact
        THEN <<ArtifactCallbackData("artifactClose", messageId,
                                    Get(st.currentArtifact))>>
        ELSE <<>>
  IN [state |-> [st EXCEPT
                   !.insideAction = IF closesAction THEN FALSE ELSE @,
                   !.currentAction = IF closesAction THEN NoAction ELSE @,
                   !.insideArtifact = IF closesArtifact THEN FALSE ELSE @,
                   !.currentArtifact = IF closesArtifact THEN None ELSE @],
      events |-> actionEvents \o artifactEvents]

(***************************************************************************)
(* The model's streams.  A stream is the text a model produces for one     *)
(* message; the caller hands parse ever longer prefixes of it.  A document *)
(* is a well-formed stream taken apart: prose, one artifact with its id    *)
(* and further attributes, its actions (type, operation, filePath, body)   *)
(* each closed, the artifact closed, prose.                                *)
(***************************************************************************)
Quoted(s) == <<"\"">> \o s \o <<"\"">>
Attr(name, value) == <<" ">> \o name \o <<"=">> \o Quoted(value)
OptAttr(name, value) == IF value = None THEN <<>> ELSE Attr(name, Get(value))
ArtifactTag(attrs) == ARTIFACT_TAG_OPEN \o attrs \o <<">">>
ActionTag(attrs) == ARTIFACT_ACTION_TAG_OPEN \o attrs \o <<">">>
Fenced(body) == StrFence \o <<"\n">> \o body \o <<"\n">> \o StrFence

Action(type, operation, filePath, body) ==
  [type |-> type, operation |-> operation, filePath |-> filePath, body |-> body]
RenderAction(a) ==
  ActionTag(Attr(AttrType, a.type) \o OptAttr(AttrOperation, a.operation)
            \o OptAttr(AttrFilePath, a.filePath))
    \o a.body \o ARTIFACT_ACTION_TAG_CLOSE
RECURSIVE RenderActions(_)
RenderActions(as) ==
  IF as = <<>> THEN <<>> ELSE RenderAction(Head(as)) \o RenderActions(Tail(as))
Render(d) ==
  d.before \o ArtifactTag(Attr(AttrId, d.id) \o d.attrs)
    \o RenderActions(d.actions) \o ARTIFACT_TAG_CLOSE \o d.after

\* the example of the specification, with a shorter path and body
DocFile ==
  [before |-> <<>>, id |-> <<"a", "1">>,
   attrs |-> Attr(AttrTitle, <<"T">>) \o Attr(AttrType, <<"a", "p", "p">>),
   actions |-> <<Action(StrFile, None, Some(<<"a", ".", "t", "s">>),
                        <<"x", "=", "1">>)>>,
   after |-> <<>>]
\* a fenced, escaped file body, which the parser cleans
DocFenced ==
  [before |-> <<>>, id |-> <<"a">>, attrs |-> <<>>,
   actions |-> <<Action(StrFile, None, Some(<<"f">>),
                        Fenced(StrLt \o <<"b">> \o StrGt))>>,
   after |-> <<>>]
\* prose around an artifact with a shell action
DocShell ==
  [before |-> <<"H", "i">>, id |-> <<"a">>, attrs |-> <<>>,
   actions |-> <<Action(StrShell, None, None, <<" ", "l", "s", " ">>)>>,
   after |-> <<"o", "k">>]
\* two actions: an external-service query, then a start command
DocQuery ==
  [before |-> <<>>, id |-> <<"a">>, attrs |-> <<>>,
   actions |-> <<Action(StrPocketbase, Some(StrQuery), None, <<"q">>),
                 Action(StrStart, None, None, <<"s">>)>>,
   after |-> <<>>]
\* a markdown file, whose fence stays
DocMarkdown ==
  [before |-> <<>>, id |-> <<"a">>, attrs |-> <<>>,
   actions |-> <<Action(StrFile, None, Some(<<"r">> \o StrMd),
                        Fenced(<<"x">>) \o <<" ">>)>>,
   after |-> <<>>]
\* an external-service action whose operation is none the parser knows
DocService ==
  [before |-> <<>>, id |-> <<"a">>, attrs |-> <<>>,
   actions |-> <<Action(StrPocketbase, Some(<<"d", "r", "o", "p">>), None,
                        <<"d">>),
                 Action(StrPocketbase, None, None, <<"e">>)>>,
   after |-> <<>>]
\* a file action without a filePath
DocNoPath ==
  [before |-> <<>>, id |-> <<"a">>, attrs |-> <<>>,
   actions |-> <<Action(StrFile, None, None, <<"x">>)>>,
   after |-> <<>>]
\* prose that looks like tags
SampleProse ==
  <<"a", "<", "b", "<", "/", "i", ">">> \o ARTIFACT_TAG_OPEN \o <<"X", ">">>
    \o <<"<", "b", "o", "l", "t">>

\* the documents in which every action is one the parser accepts
ValidDocs == {DocFile, DocFenced, DocShell, DocQuery, DocMarkdown}
ValidStreams == {Render(d) : d \in ValidDocs}
Streams == ValidStreams \cup {SampleProse, Render(DocService), Render(DocNoPath)}
DocOf(s) == CHOOSE d \in ValidDocs : Render(d) = s

(***************************************************************************)
(* The Auto-Fixer (action-fixers).  Package names, versions and commands   *)
(* are strings, character by character, as everywhere in this module.      *)
(***************************************************************************)
\* PACKAGE_NAME_CORRECTIONS (lines 10-81): the entries in the order of the
\* literal, each the wrong name and the right one
PACKAGE_NAME_CORRECTIONS ==
  <<
    \* @lucide/icons-react -> lucide-react
    <<<<"@","l","u","c","i","d","e","/","i","c","o","n","s","-","r","e","a",
      "c","t">>,
      <<"l","u","c","i","d","e","-","r","e","a","c","t">>>>,
    \* @lucide/react -> lucide-react
    <<<<"@","l","u","c","i","d","e","/","r","e","a","c","t">>,
      <<"l","u","c","i","d","e","-","r","e","a","c","t">>>>,
    \* lucide-icons -> lucide-react
    <<<<"l","u","c","i","d","e","-","i","c","o","n","s">>,
      <<"l","u","c","i","d","e","-","r","e","a","c","t">>>>,
    \* @lucide-icons/react -> lucide-react
    <<<<"@","l","u","c","i","d","e","-","i","c","o","n","s","/","r","e","a",
      "c","t">>,
      <<"l","u","c","i","d","e","-","r","e","a","c","t">>>>,
    \* lucide-react-icons -> lucide-react
    <<<<"l","u","c","i","d","e","-","r","e","a","c","t","-","i","c","o","n",
      "s">>,
      <<"l","u","c","i","d","e","-","r","e","a","c","t">>>>,
    \* @heroicons/react/solid -> @heroicons/react
    <<<<"@","h","e","r","o","i","c","o","n","s","/","r","e","a","c","t","/",
      "s","o","l","i","d">>,
      <<"@","h","e","r","o","i","c","o","n","s","/","r","e","a","c","t">>>>,
    \* @heroicons/react/outline -> @heroicons/react
    <<<<"@","h","e","r","o","i","c","o","n","s","/","r","e","a","c","t","/",
      "o","u","t","l","i","n","e">>,
      <<"@","h","e","r","o","i","c","o","n","s","/","r","e","a","c","t">>>>,
    \* @heroicons/react/24/solid -> @heroicons/react
    <<<<"@","h","e","r","o","i","c","o","n","s","/","r","e","a","c","t","/",
      "2","4","/","s","o","l","i","d">>,
      <<"@","h","e","r","o","i","c","o","n","s","/","r","e","a","c","t">>>>,
    \* @heroicons/react/24/outline -> @heroicons/react
    <<<<"@","h","e","r","o","i","c","o","n","s","/","r","e","a","c","t","/",
      "2","4","/","o","u","t","l","i","n","e">>,
      <<"@","h","e","r","o","i","c","o","n","s","/","r","e","a","c","t">>>>,
    \* @shadcn/ui -> @radix-ui/react-slot
    <<<<"@","s","h","a","d","c","n","/","u","i">>,
      <<"@","r","a","d","i","x","-","u","i","/","r","e","a","c","t","-","s",
        "l","o","t">>>>,
    \* shadcn-ui -> @radix-ui/react-slot
    <<<<"s","h","a","d","c","n","-","u","i">>,
      <<"@","r","a","d","i","x","-","u","i","/","r","e","a","c","t","-","s",
        "l","o","t">>>>,
    \* react-router -> react-router-dom
    <<<<"r","e","a","c","t","-","r","o","u","t","e","r">>,
      <<"r","e","a","c","t","-","r","o","u","t","e","r","-","d","o","m">>>>,
    \* @react-router -> react-router-dom
    <<<<"@","r","e","a","c","t","-","r","o","u","t","e","r">>,
      <<"r","e","a","c","t","-","r","o","u","t","e","r","-","d","o","m">>>>,
    \* react-icon -> react-icons
    <<<<"r","e","a","c","t","-","i","c","o","n">>,
      <<"r","e","a","c","t","-","i","c","o","n","s">>>>,
    \* @react-icons -> react-icons
    <<<<"@","r","e","a","c","t","-","i","c","o","n","s">>,
      <<"r","e","a","c","t","-","i","c","o","n","s">>>>,
    \* @react-icons/all-files -> react-icons
    <<<<"@","r","e","a","c","t","-","i","c","o","n","s","/","a","l","l","-",
      "f","i","l","e","s">>,
      <<"r","e","a","c","t","-","i","c","o","n","s">>>>,
    \* tailwindcss/postcss -> tailwindcss
    <<<<"t","a","i","l","w","i","n","d","c","s","s","/","p","o","s","t","c",
      "s","s">>,
      <<"t","a","i","l","w","i","n","d","c","s","s">>>>,
    \* @tailwindcss/postcss -> tailwindcss
    <<<<"@","t","a","i","l","w","i","n","d","c","s","s","/","p","o","s","t",
      "c","s","s">>,
      <<"t","a","i","l","w","i","n","d","c","s","s">>>>,
    \* @tailwindcss/vite -> tailwindcss
    <<<<"@","t","a","i","l","w","i","n","d","c","s","s","/","v","i","t","e">>,
      <<"t","a","i","l","w","i","n","d","c","s","s">>>>,
    \* framer-motion/react -> framer-motion
    <<<<"f","r","a","m","e","r","-","m","o","t","i","o","n","/","r","e","a",
      "c","t">>,
      <<"f","r","a","m","e","r","-","m","o","t","i","o","n">>>>,
    \* @framer-motion -> framer-motion
    <<<<"@","f","r","a","m","e","r","-","m","o","t","i","o","n">>,
      <<"f","r","a","m","e","r","-","m","o","t","i","o","n">>>>,
    \* @framer-motion/react -> framer-motion
    <<<<"@","f","r","a","m","e","r","-","m","o","t","i","o","n","/","r","e",
      "a","c","t">>,
      <<"f","r","a","m","e","r","-","m","o","t","i","o","n">>>>,
    \* react-hot-toast/headless -> react-hot-toast
    <<<<"r","e","a","c","t","-","h","o","t","-","t","o","a","s","t","/","h",
      "e","a","d","l","e","s","s">>,
      <<"r","e","a","c","t","-","h","o","t","-","t","o","a","s","t">>>>,
    \* @react-hot-toast -> react-hot-toast
    <<<<"@","r","e","a","c","t","-","h","o","t","-","t","o","a","s","t">>,
      <<"r","e","a","c","t","-","h","o","t","-","t","o","a","s","t">>>>,
    \* @tanstack/query -> @tanstack/react-query
    <<<<"@","t","a","n","s","t","a","c","k","/","q","u","e","r","y">>,
      <<"@","t","a","n","s","t","a","c","k","/","r","e","a","c","t","-","q",
        "u","e","r","y">>>>,
    \* react-query -> @tanstack/react-query
    <<<<"r","e","a","c","t","-","q","u","e","r","y">>,
      <<"@","t","a","n","s","t","a","c","k","/","r","e","a","c","t","-","q",
        "u","e","r","y">>>>,
    \* @tanstack/query-core -> @tanstack/react-query
    <<<<"@","t","a","n","s","t","a","c","k","/","q","u","e","r","y","-","c",
      "o","r","e">>,
      <<"@","t","a","n","s","t","a","c","k","/","r","e","a","c","t","-","q",
        "u","e","r","y">>>>,
    \* @hookform/resolvers/zod -> @hookform/resolvers
    <<<<"@","h","o","o","k","f","o","r","m","/","r","e","s","o","l","v","e",
      "r","s","/","z","o","d">>,
      <<"@","h","o","o","k","f","o","r","m","/","r","e","s","o","l","v","e",
        "r","s">>>>,
    \* @hookform/resolvers/yup -> @hookform/resolvers
    <<<<"@","h","o","o","k","f","o","r","m","/","r","e","s","o","l","v","e",
      "r","s","/","y","u","p">>,
      <<"@","h","o","o","k","f","o","r","m","/","r","e","s","o","l","v","e",
        "r","s">>>>,
    \* @axios -> axios
    <<<<"@","a","x","i","o","s">>,
      <<"a","x","i","o","s">>>>,
    \* axios/dist -> axios
    <<<<"a","x","i","o","s","/","d","i","s","t">>,
      <<"a","x","i","o","s">>>>,
    \* zod/lib -> zod
    <<<<"z","o","d","/","l","i","b">>,
      <<"z","o","d">>>>,
    \* @zod -> zod
    <<<<"@","z","o","d">>,
      <<"z","o","d">>>>,
    \* moment -> date-fns
    <<<<"m","o","m","e","n","t">>,
      <<"d","a","t","e","-","f","n","s">>>>,
    \* moment-timezone -> date-fns
    <<<<"m","o","m","e","n","t","-","t","i","m","e","z","o","n","e">>,
      <<"d","a","t","e","-","f","n","s">>>>,
    \* classnames -> clsx
    <<<<"c","l","a","s","s","n","a","m","e","s">>,
      <<"c","l","s","x">>>>,
    \* @types/react-dom -> @types/react
    <<<<"@","t","y","p","e","s","/","r","e","a","c","t","-","d","o","m">>,
      <<"@","t","y","p","e","s","/","r","e","a","c","t">>>>,
    \* @types/pocketbase -> pocketbase
    <<<<"@","t","y","p","e","s","/","p","o","c","k","e","t","b","a","s","e">>,
      <<"p","o","c","k","e","t","b","a","s","e">>>>,
    \* pocketbase-types -> pocketbase
    <<<<"p","o","c","k","e","t","b","a","s","e","-","t","y","p","e","s">>,
      <<"p","o","c","k","e","t","b","a","s","e">>>>
  >>

\* PACKAGES_TO_REMOVE (lines 87-105)
PACKAGES_TO_REMOVE ==
  {
    \* @shadcn/components
    <<"@","s","h","a","d","c","n","/","c","o","m","p","o","n","e","n","t",
      "s">>,
    \* @shadcn/themes
    <<"@","s","h","a","d","c","n","/","t","h","e","m","e","s">>,
    \* shadcn
    <<"s","h","a","d","c","n">>,
    \* @nextui/react
    <<"@","n","e","x","t","u","i","/","r","e","a","c","t">>,
    \* @types/lucide-react
    <<"@","t","y","p","e","s","/","l","u","c","i","d","e","-","r","e","a","c",
      "t">>,
    \* @types/framer-motion
    <<"@","t","y","p","e","s","/","f","r","a","m","e","r","-","m","o","t","i",
      "o","n">>,
    \* @types/axios
    <<"@","t","y","p","e","s","/","a","x","i","o","s">>,
    \* @types/zod
    <<"@","t","y","p","e","s","/","z","o","d">>,
    \* @types/date-fns
    <<"@","t","y","p","e","s","/","d","a","t","e","-","f","n","s">>,
    \* @types/clsx
    <<"@","t","y","p","e","s","/","c","l","s","x">>,
    \* @types/sonner
    <<"@","t","y","p","e","s","/","s","o","n","n","e","r">>,
    \* @types/react-router-dom
    <<"@","t","y","p","e","s","/","r","e","a","c","t","-","r","o","u","t","e",
      "r","-","d","o","m">>,
    \* @types/react-router
    <<"@","t","y","p","e","s","/","r","e","a","c","t","-","r","o","u","t","e",
      "r">>,
    \* @types/pocketbase
    <<"@","t","y","p","e","s","/","p","o","c","k","e","t","b","a","s","e">>,
    \* @types/tailwindcss
    <<"@","t","y","p","e","s","/","t","a","i","l","w","i","n","d","c","s",
      "s">>,
    \* @types/vite
    <<"@","t","y","p","e","s","/","v","i","t","e">>
  }

\* what every object literal inherits from Object.prototype, each property
\* with the string its value gives when it is added to a string: a table
\* that is an object literal answers table[name] for these names too
ObjectPrototype ==
  <<
    \* constructor
    <<<<"c","o","n","s","t","r","u","c","t","o","r">>,
      <<"f","u","n","c","t","i","o","n"," ","O","b","j","e","c","t","(",")",
        " ","{"," ","[","n","a","t","i","v","e"," ","c","o","d","e","]"," ",
        "}">>>>,
    \* __proto__
    <<<<"_","_","p","r","o","t","o","_","_">>,
      <<"[","o","b","j","e","c","t"," ","O","b","j","e","c","t","]">>>>,
    \* toString
    <<<<"t","o","S","t","r","i","n","g">>,
      <<"f","u","n","c","t","i","o","n"," ","t","o","S","t","r","i","n","g",
        "(",")"," ","{"," ","[","n","a","t","i","v","e"," ","c","o","d","e",
        "]"," ","}">>>>,
    \* toLocaleString
    <<<<"t","o","L","o","c","a","l","e","S","t","r","i","n","g">>,
      <<"f","u","n","c","t","i","o","n"," ","t","o","L","o","c","a","l","e",
        "S","t","r","i","n","g","(",")"," ","{"," ","[","n","a","t","i","v",
        "e"," ","c","o","d","e","]"," ","}">>>>,
    \* valueOf
    <<<<"v","a","l","u","e","O","f">>,
      <<"f","u","n","c","t","i","o","n"," ","v","a","l","u","e","O","f","(",
        ")"," ","{"," ","[","n","a","t","i","v","e"," ","c","o","d","e","]",
        " ","}">>>>,
    \* hasOwnProperty
    <<<<"h","a","s","O","w","n","P","r","o","p","e","r","t","y">>,
      <<"f","u","n","c","t","i","o","n"," ","h","a","s","O","w","n","P","r",
        "o","p","e","r","t","y","(",")"," ","{"," ","[","n","a","t","i","v",
        "e"," ","c","o","d","e","]"," ","}">>>>,
    \* isPrototypeOf
    <<<<"i","s","P","r","o","t","o","t","y","p","e","O","f">>,
      <<"f","u","n","c","t","i","o","n"," ","i","s","P","r","o","t","o","t",
        "y","p","e","O","f","(",")"," ","{"," ","[","n","a","t","i","v","e",
        " ","c","o","d","e","]"," ","}">>>>,
    \* propertyIsEnumerable
    <<<<"p","r","o","p","e","r","t","y","I","s","E","n","u","m","e","r","a",
      "b","l","e">>,
      <<"f","u","n","c","t","i","o","n"," ","p","r","o","p","e","r","t","y",
        "I","s","E","n","u","m","e","r","a","b","l","e","(",")"," ","{"," ",
        "[","n","a","t","i","v","e"," ","c","o","d","e","]"," ","}">>>>,
    \* __defineGetter__
    <<<<"_","_","d","e","f","i","n","e","G","e","t","t","e","r","_","_">>,
      <<"f","u","n","c","t","i","o","n"," ","_","_","d","e","f","i","n","e",
        "G","e","t","t","e","r","_","_","(",")"," ","{"," ","[","n","a","t",
        "i","v","e"," ","c","o","d","e","]"," ","}">>>>,
    \* __defineSetter__
    <<<<"_","_","d","e","f","i","n","e","S","e","t","t","e","r","_","_">>,
      <<"f","u","n","c","t","i","o","n"," ","_","_","d","e","f","i","n","e",
        "S","e","t","t","e","r","_","_","(",")"," ","{"," ","[","n","a","t",
        "i","v","e"," ","c","o","d","e","]"," ","}">>>>,
    \* __lookupGetter__
    <<<<"_","_","l","o","o","k","u","p","G","e","t","t","e","r","_","_">>,
      <<"f","u","n","c","t","i","o","n"," ","_","_","l","o","o","k","u","p",
        "G","e","t","t","e","r","_","_","(",")"," ","{"," ","[","n","a","t",
        "i","v","e"," ","c","o","d","e","]"," ","}">>>>,
    \* __lookupSetter__
    <<<<"_","_","l","o","o","k","u","p","S","e","t","t","e","r","_","_">>,
      <<"f","u","n","c","t","i","o","n"," ","_","_","l","o","o","k","u","p",
        "S","e","t","t","e","r","_","_","(",")"," ","{"," ","[","n","a","t",
        "i","v","e"," ","c","o","d","e","]"," ","}">>>>
  >>

Keys(table) == {table[k][1] : k \in 1..Len(table)}
ValueOf(table, name) ==
  table[CHOOSE k \in 1..Len(table) : table[k][1] = name][2]
\* table[name], None when undefined
Property(table, name) ==
  IF name \in Keys(table) THEN Some(ValueOf(table, name))
  ELSE IF name \in Keys(ObjectPrototype) THEN Some(ValueOf(ObjectPrototype,
     name))
  ELSE None
\* name in table
HasProperty(table, name) == Property(table, name) # None

StrNpm == <<"n","p","m">>
StrInstall == <<"i","n","s","t","a","l","l">>
StrNpmInstall == <<"n","p","m"," ","i","n","s","t","a","l","l">>
\* the first place from k on that holds no white space (0-based)
RECURSIVE SkipSpaces(_, _)
SkipSpaces(s, k) ==
  IF k < Len(s) /\ IsSpace(s[k + 1]) THEN SkipSpaces(s, k + 1) ELSE k
\* \b behind a word character that ends before place k
WordEndsAt(s, k) == k >= Len(s) \/ ~IsWord(s[k + 1])
\* npm\s+(install|i)\b matches at place k
InstallVerbAt(s, k) ==
  /\ MatchAt(s, StrNpm, k)
  /\ SkipSpaces(s, k + 3) > k + 3
  /\ LET j == SkipSpaces(s, k + 3)
     IN \/ MatchAt(s, StrInstall, j) /\ WordEndsAt(s, j + 7)
        \/ MatchAt(s, <<"i">>, j) /\ WordEndsAt(s, j + 1)
\* /npm\s+(install|i)\b/.test(command) (line 117)
HasInstallVerb(s) == \E k \in 0..Len(s) : InstallVerbAt(s, k)

\* s.split(/\s+/): the runs between white space, an empty one at an end of
\* s that is white space
RECURSIVE SplitFrom(_, _, _)
SplitFrom(s, k, part) ==
  IF k >= Len(s) THEN <<part>>
  ELSE IF IsSpace(s[k + 1])
       THEN <<part>> \o SplitFrom(s, SkipSpaces(s, k), <<>>)
       ELSE SplitFrom(s, k + 1, Append(part, s[k + 1]))
SplitSpaces(s) == SplitFrom(s, 0, <<>>)
\* parts.join(' ')
RECURSIVE Join(_)
Join(parts) ==
  IF parts = <<>> THEN <<>>
  ELSE IF Len(parts) = 1 THEN parts[1]
  ELSE parts[1] \o <<" ">> \o Join(Tail(parts))
\* s.lastIndexOf(c), -1 when there is none
LastIndexOf(s, c) == SetMax({-1} \cup {k \in 0..(Len(s) - 1) : s[k + 1] = c})

\* the name and the version suffix of a token of the command (lines 126-128)
BareName(part) ==
  IF LastIndexOf(part, "@") > 0 THEN Slice(part, 0, LastIndexOf(part,
     "@")) ELSE part
VersionOf(part) ==
  IF LastIndexOf(part, "@") > 0 THEN SliceFrom(part, LastIndexOf(part,
     "@")) ELSE <<>>
\* the loop over the tokens (lines 125-145): what is kept, and whether
\* anything changed
RECURSIVE SanitizeParts(_)
SanitizeParts(parts) ==
  IF parts = <<>> THEN [cleaned |-> <<>>, changed |-> FALSE]
  ELSE LET part == Head(parts)
           rest == SanitizeParts(Tail(parts))
           corrected == Property(PACKAGE_NAME_CORRECTIONS, BareName(part))
       IN IF BareName(part) \in PACKAGES_TO_REMOVE
          THEN [cleaned |-> rest.cleaned, changed |-> TRUE]
          ELSE IF corrected # None
          THEN [cleaned |-> <<Get(corrected) \o VersionOf(part)>> \o rest.cleaned,
                changed |-> TRUE]
          ELSE [cleaned |-> <<part>> \o rest.cleaned,
             changed |-> rest.changed]
\* sanitizeNpmCommand (lines 116-152)
sanitizeNpmCommand(command) ==
  IF ~HasInstallVerb(command) THEN command
  ELSE IF ~SanitizeParts(SplitSpaces(command)).changed THEN command
  ELSE Join(SanitizeParts(SplitSpaces(command)).cleaned)

\* the example of the specification: "npm install @lucide/react"
CmdLucide ==
  <<"n","p","m"," ","i","n","s","t","a","l","l"," ","@","l","u","c","i","d",
    "e","/","r","e","a","c","t">>
\* a wrong name with a version, a name to remove, a right name: "npm install @lucide/react@0.4 @types/zod react"
CmdMixed ==
  <<"n","p","m"," ","i","n","s","t","a","l","l"," ","@","l","u","c","i","d",
    "e","/","r","e","a","c","t","@","0",".","4"," ","@","t","y","p","e","s",
    "/","z","o","d"," ","r","e","a","c","t">>
\* no install verb: "npm run dev"
CmdRunDev ==
  <<"n","p","m"," ","r","u","n"," ","d","e","v">>
\* no install verb: init is not i: "npm init moment"
CmdInit ==
  <<"n","p","m"," ","i","n","i","t"," ","m","o","m","e","n","t">>
\* the short verb, white space of two kinds: "npm  i\tmoment@2"
CmdShort ==
  <<"n","p","m"," "," ","i","\t","m","o","m","e","n","t","@","2">>
\* an install with nothing to repair, two blanks between the words: "npm  install  lucide-react"
CmdRight ==
  <<"n","p","m"," "," ","i","n","s","t","a","l","l"," "," ","l","u","c","i",
    "d","e","-","r","e","a","c","t">>
\* a name that is to be corrected and to be removed: "npm install @types/pocketbase"
CmdBoth ==
  <<"n","p","m"," ","i","n","s","t","a","l","l"," ","@","t","y","p","e","s",
    "/","p","o","c","k","e","t","b","a","s","e">>
\* a name no table lists, which Object.prototype has: "npm install constructor"
CmdInherited ==
  <<"n","p","m"," ","i","n","s","t","a","l","l"," ","c","o","n","s","t","r",
    "u","c","t","o","r">>
\* white space at both ends: " npm install shadcn axios\n"
CmdLeading ==
  <<" ","n","p","m"," ","i","n","s","t","a","l","l"," ","s","h","a","d","c",
    "n"," ","a","x","i","o","s","\n">>
\* the commands of the shell actions
Commands ==
  {CmdLucide, CmdMixed, CmdRunDev, CmdInit, CmdShort,
   CmdRight, CmdBoth, CmdInherited, CmdLeading}

(***************************************************************************)
(* The manifest.  JSON.parse and JSON.stringify are the two directions     *)
(* between the text of package.json and the value below: the three tables  *)
(* of dependencies (None: the key is missing), each a function from names  *)
(* to versions, the type and the scripts dev, build and start.  The order  *)
(* of the keys, which no repair reads, is left out.                        *)
(***************************************************************************)
DepKeys == <<"dependencies", "devDependencies", "peerDependencies">>
NoDeps == [n \in {} |-> <<>>]
Del(deps, name) == [n \in DOMAIN deps \ {name} |-> deps[n]]
Put(deps, name, version) ==
  [n \in DOMAIN deps \cup {name} |-> IF n = name THEN version ELSE deps[n]]
\* deps?.[name] is truthy: deps is there, has the name, the version is not ''
Truthy(deps, name) ==
  /\ deps # None
  /\ name \in DOMAIN Get(deps)
  /\ Get(deps)[name] # <<>>
NoScripts == [dev |-> None, build |-> None, start |-> None]
EmptyManifest ==
  [dependencies |-> None, devDependencies |-> None, peerDependencies |-> None,
   type |-> None, scripts |-> None]

StrVite == <<"v","i","t","e">>
StrReact == <<"r","e","a","c","t">>
StrReactDom == <<"r","e","a","c","t","-","d","o","m">>
StrPluginReact == <<"@","v","i","t","e","j","s","/","p","l","u","g","i","n","-","r","e","a","c","t">>
StrModule == <<"m","o","d","u","l","e">>
StrViteBuild == <<"v","i","t","e"," ","b","u","i","l","d">>
StrVitePreview == <<"v","i","t","e"," ","p","r","e","v","i","e","w">>
VersionVite == <<"^","5",".","4",".","0">>
VersionPluginReact == <<"^","4",".","3",".","0">>
VersionReact == <<"^","1","8",".","3",".","0">>
StrSetupAndVite == <<"p","b","-","s","e","t","u","p",".","j","s"," ","&","&"," ","v","i","t","e">>
StrSetupThenVite == <<"p","b","-","s","e","t","u","p",".","j","s",";"," ","v","i","t","e">>

\* REACT_REQUIRED_DEV_DEPS (lines 107-109)
REACT_REQUIRED_DEV_DEPS == << <<StrPluginReact, VersionPluginReact>> >>

\* BANNED_FRAMEWORKS (lines 252-315): the packages of each framework
BANNED_FRAMEWORKS ==
  <<
    \* Next.js
    <<<<"n","e","x","t">>,
      <<"e","s","l","i","n","t","-","c","o","n","f","i","g","-","n","e","x","t">>,
      <<"@","n","e","x","t","/","f","o","n","t">>,
      <<"@","n","e","x","t","/","e","n","v">>>>,
    \* Astro
    <<<<"a","s","t","r","o">>,
      <<"@","a","s","t","r","o","j","s","/","r","e","a","c","t">>,
      <<"@","a","s","t","r","o","j","s","/","v","u","e">>,
      <<"@","a","s","t","r","o","j","s","/","s","v","e","l","t","e">>,
      <<"@","a","s","t","r","o","j","s","/","s","o","l","i","d","-","j","s">>,
      <<"@","a","s","t","r","o","j","s","/","t","a","i","l","w","i","n","d">>,
      <<"@","a","s","t","r","o","j","s","/","n","o","d","e">>,
      <<"@","a","s","t","r","o","j","s","/","v","e","r","c","e","l">>,
      <<"@","a","s","t","r","o","j","s","/","n","e","t","l","i","f","y">>>>,
    \* Angular
    <<<<"@","a","n","g","u","l","a","r","/","c","o","r","e">>,
      <<"@","a","n","g","u","l","a","r","/","c","l","i">>,
      <<"@","a","n","g","u","l","a","r","/","c","o","m","m","o","n">>,
      <<"@","a","n","g","u","l","a","r","/","c","o","m","p","i","l","e","r">>,
      <<"@","a","n","g","u","l","a","r","/","p","l","a","t","f","o","r","m","-","b","r","o","w","s","e","r">>,
      <<"@","a","n","g","u","l","a","r","/","p","l","a","t","f","o","r","m","-","b","r","o","w","s","e","r","-","d","y","n","a","m","i","c">>,
      <<"@","a","n","g","u","l","a","r","/","r","o","u","t","e","r">>,
      <<"@","a","n","g","u","l","a","r","/","f","o","r","m","s">>>>,
    \* SolidStart
    <<<<"s","o","l","i","d","-","s","t","a","r","t">>,
      <<"@","s","o","l","i","d","j","s","/","s","t","a","r","t">>,
      <<"@","s","o","l","i","d","j","s","/","r","o","u","t","e","r">>,
      <<"@","s","o","l","i","d","j","s","/","m","e","t","a">>>>,
    \* Qwik
    <<<<"@","b","u","i","l","d","e","r",".","i","o","/","q","w","i","k">>,
      <<"@","b","u","i","l","d","e","r",".","i","o","/","q","w","i","k","-","c","i","t","y">>,
      <<"@","b","u","i","l","d","e","r",".","i","o","/","s","d","k","-","q","w","i","k">>>>,
    \* SvelteKit
    <<<<"@","s","v","e","l","t","e","j","s","/","k","i","t">>,
      <<"@","s","v","e","l","t","e","j","s","/","a","d","a","p","t","e","r","-","a","u","t","o">>,
      <<"@","s","v","e","l","t","e","j","s","/","a","d","a","p","t","e","r","-","n","o","d","e">>,
      <<"@","s","v","e","l","t","e","j","s","/","a","d","a","p","t","e","r","-","s","t","a","t","i","c">>,
      <<"@","s","v","e","l","t","e","j","s","/","a","d","a","p","t","e","r","-","v","e","r","c","e","l">>,
      <<"@","s","v","e","l","t","e","j","s","/","a","d","a","p","t","e","r","-","n","e","t","l","i","f","y">>>>,
    \* Nuxt
    <<<<"n","u","x","t">>,
      <<"@","n","u","x","t","/","k","i","t">>,
      <<"@","n","u","x","t","/","s","c","h","e","m","a">>,
      <<"@","n","u","x","t","/","d","e","v","t","o","o","l","s">>>>,
    \* Gatsby
    <<<<"g","a","t","s","b","y">>,
      <<"g","a","t","s","b","y","-","p","l","u","g","i","n","-","r","e","a","c","t","-","h","e","l","m","e","t">>,
      <<"g","a","t","s","b","y","-","p","l","u","g","i","n","-","i","m","a","g","e">>,
      <<"g","a","t","s","b","y","-","s","o","u","r","c","e","-","f","i","l","e","s","y","s","t","e","m">>>>,
    \* Remix
    <<<<"@","r","e","m","i","x","-","r","u","n","/","r","e","a","c","t">>,
      <<"@","r","e","m","i","x","-","r","u","n","/","n","o","d","e">>,
      <<"@","r","e","m","i","x","-","r","u","n","/","s","e","r","v","e">>,
      <<"@","r","e","m","i","x","-","r","u","n","/","d","e","v">>>>
  >>

\* the first loop over a table of dependencies (lines 168-180): a wrong name
\* goes, its version passes to the right name unless that is there
RECURSIVE CorrectFrom(_, _)
CorrectFrom(deps, k) ==
  IF k > Len(PACKAGE_NAME_CORRECTIONS) THEN deps
  ELSE LET wrong == PACKAGE_NAME_CORRECTIONS[k][1]
           correct == PACKAGE_NAME_CORRECTIONS[k][2]
       IN IF wrong \in DOMAIN deps
          THEN CorrectFrom(IF correct \in DOMAIN Del(deps, wrong)
                           THEN Del(deps, wrong)
                           ELSE Put(Del(deps, wrong), correct, deps[wrong]), k + 1)
          ELSE CorrectFrom(deps, k + 1)
\* the second loop (lines 182-188)
RemoveFrom(deps) == [n \in DOMAIN deps \ PACKAGES_TO_REMOVE |-> deps[n]]
\* whether one of the two loops set changed
NamesChanged(deps) ==
  \/ \E k \in 1..Len(PACKAGE_NAME_CORRECTIONS) :
       PACKAGE_NAME_CORRECTIONS[k][1] \in DOMAIN deps
  \/ DOMAIN CorrectFrom(deps, 1) \cap PACKAGES_TO_REMOVE # {}
\* both loops on the three tables (lines 161-189); a repair takes and gives
\* the manifest and the flag changed
CorrectNames(s) ==
  [pkg |-> [s.pkg EXCEPT
     !.dependencies = IF @ = None THEN @ ELSE Some(RemoveFrom(CorrectFrom(Get(@), 1))),
     !.devDependencies = IF @ = None THEN @ ELSE Some(RemoveFrom(CorrectFrom(Get(@), 1))),
     !.peerDependencies = IF @ = None THEN @ ELSE Some(RemoveFrom(CorrectFrom(Get(@), 1)))],
   changed |-> \/ s.changed
               \/ \E k \in 1..3 : /\ s.pkg[DepKeys[k]] # None
                                  /\ NamesChanged(Get(s.pkg[DepKeys[k]]))]

\* hasVite and hasReact (lines 191, 199)
HasVite(pkg) == Truthy(pkg.devDependencies, StrVite) \/ Truthy(pkg.dependencies, StrVite)
HasReact(pkg) == Truthy(pkg.dependencies, StrReact) \/ Truthy(pkg.devDependencies, StrReact)
\* a value that is there and is not ''
IsSet(value) == value # None /\ value # Some(<<>>)
\* "type": "module" for a Vite project (lines 193-197)
AddType(s, hasVite) ==
  IF hasVite /\ ~IsSet(s.pkg.type)
  THEN [pkg |-> [s.pkg EXCEPT !.type = Some(StrModule)], changed |-> TRUE]
  ELSE s
\* the plugin a React project on Vite needs (lines 199-213)
AddPlugin(s, hasVite) ==
  IF HasReact(s.pkg) /\ hasVite
  THEN LET dev == IF s.pkg.devDependencies = None THEN NoDeps
                  ELSE Get(s.pkg.devDependencies)
           dep == REACT_REQUIRED_DEV_DEPS[1][1]
           version == REACT_REQUIRED_DEV_DEPS[1][2]
       IN IF ~Truthy(Some(dev), dep) /\ ~Truthy(s.pkg.dependencies, dep)
          THEN [pkg |-> [s.pkg EXCEPT !.devDependencies = Some(Put(dev, dep, version))],
                changed |-> TRUE]
          ELSE [s EXCEPT !.pkg.devDependencies = Some(dev)]
  ELSE s
\* /^\^?[digits]\./.test(version)
OldVersion(version, digits) ==
  LET v == IF Len(version) > 0 /\ version[1] = "^" THEN Tail(version) ELSE version
  IN Len(v) >= 2 /\ v[1] \in digits /\ v[2] = "."
\* vite and its plugin lifted to the versions that work (lines 215-233)
UpgradeDeps(deps) ==
  [n \in DOMAIN deps |->
     IF n = StrVite /\ deps[n] # <<>> /\ OldVersion(deps[n], {"3", "4"})
     THEN VersionVite
     ELSE IF n = StrPluginReact /\ deps[n] # <<>> /\ OldVersion(deps[n], {"1", "2", "3"})
     THEN VersionPluginReact
     ELSE deps[n]]
Upgrade(s) ==
  LET pkg == [s.pkg EXCEPT
        !.dependencies = IF @ = None THEN @ ELSE Some(UpgradeDeps(Get(@))),
        !.devDependencies = IF @ = None THEN @ ELSE Some(UpgradeDeps(Get(@))),
        !.peerDependencies = IF @ = None THEN @ ELSE Some(UpgradeDeps(Get(@)))]
  IN [pkg |-> pkg, changed |-> s.changed \/ pkg # s.pkg]
\* s.replace(pattern, replacement) for a pattern that is a string: the first
\* match only
ReplaceFirst(s, pat, rep) ==
  IF IndexOf(s, pat, 0) = -1 THEN s
  ELSE Slice(s, 0, IndexOf(s, pat, 0)) \o rep
         \o SliceFrom(s, IndexOf(s, pat, 0) + Len(pat))
\* the scripts (lines 235-249): there from now on, dev set for Vite, and
\* the && after pb-setup.js made ;
FixScripts(s, hasVite) ==
  LET scripts == IF s.pkg.scripts = None THEN NoScripts ELSE Get(s.pkg.scripts)
      added == ~IsSet(scripts.dev) /\ hasVite
      dev == IF added THEN Some(StrVite) ELSE scripts.dev
      replaced == IsSet(dev) /\ IndexOf(Get(dev), StrSetupAndVite, 0) # -1
      dev2 == IF replaced
              THEN Some(ReplaceFirst(Get(dev), StrSetupAndVite, StrSetupThenVite))
              ELSE dev
  IN [pkg |-> [s.pkg EXCEPT !.scripts = Some([scripts EXCEPT !.dev = dev2])],
      changed |-> s.changed \/ added \/ replaced]
\* found (line 320): one of the packages of the framework has a version in
\* one of the three tables
Found(pkg, packages) ==
  \E k \in 1..Len(packages) : \E d \in 1..3 : Truthy(pkg[DepKeys[d]], packages[k])
BannedPackages(pkg) ==
  UNION {Range(BANNED_FRAMEWORKS[f]) :
           f \in {g \in 1..Len(BANNED_FRAMEWORKS) : Found(pkg, BANNED_FRAMEWORKS[g])}}
Without(deps, names) == [n \in DOMAIN deps \ names |-> deps[n]]
OrPut(deps, name, version) ==
  IF name \in DOMAIN deps /\ deps[name] # <<>> THEN deps ELSE Put(deps, name, version)
RemoveBannedFromDependencies(s) ==
  IF BannedPackages(s.pkg) = {} THEN s
  ELSE LET gone == BannedPackages(s.pkg)
           deps == IF s.pkg.dependencies = None THEN NoDeps
                   ELSE Without(Get(s.pkg.dependencies), gone)
           dev == IF s.pkg.devDependencies = None THEN NoDeps
                  ELSE Get(s.pkg.devDependencies)
       IN [pkg |-> [s.pkg EXCEPT
             !.dependencies = Some(OrPut(OrPut(deps, StrReact, VersionReact),
                                         StrReactDom, VersionReact)),
             !.devDependencies = Some(OrPut(OrPut(dev, StrVite, VersionVite),
                                            StrPluginReact, VersionPluginReact)),
             !.scripts = Some([dev |-> Some(StrVite), build |-> Some(StrViteBuild),
                               start |-> Some(StrVitePreview)]),
             !.type = IF IsSet(@) THEN @ ELSE Some(StrModule)],
           changed |-> TRUE]
\* the packages of every framework found go, and the project becomes one of
\* Vite and React (lines 317-379)
RemoveBanned(s) ==
  IF BannedPackages(s.pkg) = {} THEN s
  ELSE LET gone == BannedPackages(s.pkg)
           deps == IF s.pkg.dependencies = None THEN NoDeps
                   ELSE Without(Get(s.pkg.dependencies), gone)
           dev == IF s.pkg.devDependencies = None THEN NoDeps
                  ELSE Without(Get(s.pkg.devDependencies), gone)
       IN [pkg |-> [s.pkg EXCEPT
             !.dependencies = Some(OrPut(OrPut(deps, StrReact, VersionReact),
                                         StrReactDom, VersionReact)),
             !.devDependencies = Some(OrPut(OrPut(dev, StrVite, VersionVite),
                                            StrPluginReact, VersionPluginReact)),
             !.peerDependencies = IF @ = None THEN @ ELSE Some(Without(Get(@), gone)),
             !.scripts = Some([dev |-> Some(StrVite), build |-> Some(StrViteBuild),
                               start |-> Some(StrVitePreview)]),
             !.type = IF IsSet(@) THEN @ ELSE Some(StrModule)],
           changed |-> TRUE]

\* fixPackageJson (lines 154-386) on a text JSON.parse accepts, the text and
\* the result given by their values: the repaired manifest when a repair set
\* changed, else the text as it came
fixPackageJson(pkg) ==
  LET named == CorrectNames([pkg |-> pkg, changed |-> FALSE])
      hasVite == HasVite(named.pkg)
      fixed == RemoveBanned(FixScripts(Upgrade(AddPlugin(AddType(named, hasVite),
                                                         hasVite)), hasVite))
  IN IF fixed.changed THEN fixed.pkg ELSE pkg

(***************************************************************************)
(* The manifests the model writes and finds in the workspace.              *)
(***************************************************************************)
\* a React project on an old Vite that lists a known-wrong name
PkgLucide ==
  [dependencies |->
     Some(Put(Put(NoDeps,
        <<"@","l","u","c","i","d","e","/","r","e","a","c","t">>,
        <<"^","0",".","4">>),
        <<"r","e","a","c","t">>,
        <<"^","1","8">>)),
   devDependencies |->
     Some(Put(NoDeps,
        <<"v","i","t","e">>,
        <<"^","4",".","0">>)),
   peerDependencies |->
     None,
   type |-> None,
   scripts |-> None]

\* a known-wrong name beside its correction, a nonexistent package
PkgMoment ==
  [dependencies |->
     Some(Put(Put(NoDeps,
        <<"m","o","m","e","n","t">>,
        <<"^","2">>),
        <<"d","a","t","e","-","f","n","s">>,
        <<"^","3">>)),
   devDependencies |->
     Some(Put(NoDeps,
        <<"@","t","y","p","e","s","/","z","o","d">>,
        <<"1">>)),
   peerDependencies |->
     None,
   type |-> Some(<<"m","o","d","u","l","e">>),
   scripts |-> Some([dev |-> Some(<<"n","o","d","e"," ","p","b","-","s","e","t","u","p",".","j","s"," ","&","&"," ","v","i","t","e">>),
                 build |-> None,
                 start |-> None])]

\* a project on a banned framework
PkgAstro ==
  [dependencies |->
     Some(Put(Put(NoDeps,
        <<"a","s","t","r","o">>,
        <<"^","5">>),
        <<"@","a","s","t","r","o","j","s","/","r","e","a","c","t">>,
        <<"^","4">>)),
   devDependencies |->
     None,
   peerDependencies |->
     None,
   type |-> None,
   scripts |-> Some([dev |-> Some(<<"a","s","t","r","o"," ","d","e","v">>),
                 build |-> Some(<<"a","s","t","r","o"," ","b","u","i","l","d">>),
                 start |-> None])]

\* a dev script that runs the setup and Vite twice
PkgTwice ==
  [dependencies |->
     None,
   devDependencies |->
     Some(Put(NoDeps,
        <<"v","i","t","e">>,
        <<"^","5",".","4",".","0">>)),
   peerDependencies |->
     None,
   type |-> Some(<<"m","o","d","u","l","e">>),
   scripts |-> Some([dev |-> Some(<<"p","b","-","s","e","t","u","p",".","j","s"," ","&","&"," ","v","i","t","e"," ","&","&"," ","p","b","-","s","e","t","u","p",".","j","s"," ","&","&"," ","v","i","t","e">>),
                 build |-> None,
                 start |-> None])]

\* a manifest no repair touches
PkgPlain ==
  [dependencies |->
     Some(Put(Put(NoDeps,
        <<"r","e","a","c","t">>,
        <<"^","1","8",".","3",".","0">>),
        <<"l","e","f","t","-","p","a","d">>,
        <<"1">>)),
   devDependencies |->
     Some(Put(Put(NoDeps,
        <<"v","i","t","e">>,
        <<"^","5",".","4",".","0">>),
        <<"@","v","i","t","e","j","s","/","p","l","u","g","i","n","-","r","e","a","c","t">>,
        <<"^","4",".","3",".","0">>)),
   peerDependencies |->
     None,
   type |-> Some(<<"m","o","d","u","l","e">>),
   scripts |-> Some([dev |-> Some(<<"v","i","t","e">>),
                 build |-> None,
                 start |-> None])]

\* a name listed in two tables
PkgPeer ==
  [dependencies |->
     Some(Put(NoDeps,
        <<"@","l","u","c","i","d","e","/","r","e","a","c","t">>,
        <<"1">>)),
   devDependencies |->
     None,
   peerDependencies |->
     Some(Put(Put(NoDeps,
        <<"@","l","u","c","i","d","e","/","r","e","a","c","t">>,
        <<"2">>),
        <<"l","u","c","i","d","e","-","r","e","a","c","t">>,
        <<"3">>)),
   type |-> None,
   scripts |-> None]

\* the manifest of the handler's test, with packages of two banned frameworks
\* in each of the three tables
PkgNext ==
  [dependencies |->
     Some(Put(Put(NoDeps,
        <<"n","e","x","t">>,
        <<"^","1","4",".","0",".","0">>),
        <<"r","e","a","c","t">>,
        <<"^","1","8",".","0",".","0">>)),
   devDependencies |->
     Some(Put(NoDeps,
        <<"e","s","l","i","n","t","-","c","o","n","f","i","g","-","n","e","x","t">>,
        <<"1","4">>)),
   peerDependencies |->
     Some(Put(Put(NoDeps,
        <<"@","n","e","x","t","/","f","o","n","t">>,
        <<"1">>),
        <<"g","a","t","s","b","y">>,
        <<"5">>)),
   type |-> None,
   scripts |-> Some([dev |-> None,
                 build |-> None,
                 start |-> Some(<<"n","e","x","t"," ","s","t","a","r","t">>)])]

Manifests ==
  {EmptyManifest, PkgLucide, PkgMoment, PkgAstro, PkgTwice, PkgPlain, PkgPeer, PkgNext}

\* package.json in the workspace: missing, a text JSON.parse rejects, or the
\* text of a manifest; by is who wrote it last
Files ==
  {[kind |-> "absent", pkg |-> EmptyManifest, by |-> "none"],
   [kind |-> "truncated", pkg |-> EmptyManifest, by |-> "none"]}
    \cup {[kind |-> "json", pkg |-> m, by |-> "none"] : m \in Manifests}

(***************************************************************************)
(* The output of a failed command.                                         *)
(***************************************************************************)
OutLucide ==
  <<"n","p","m"," ","E","R","R","!"," ","4","0","4"," ","N","o","t"," ","F",
    "o","u","n","d"," ","-"," ","G","E","T"," ","h","t","t","p","s",":","/",
    "/","r","e","g","i","s","t","r","y",".","n","p","m","j","s",".","o","r",
    "g","/","@","l","u","c","i","d","e","%","2","f","r","e","a","c","t"," ",
    "-"," ","N","o","t"," ","f","o","u","n","d">>
OutMoment ==
  <<"4","0","4"," "," ","N","o","t"," ","F","o","u","n","d"," ","-"," ","G",
    "E","T"," ","h","t","t","p",":","/","/","r","e","g","i","s","t","r","y",
    ".","n","p","m","j","s",".","o","r","g","/","m","o","m","e","n","t">>
OutLeftPad ==
  <<"n","p","m"," ","E","R","R","!"," ","4","0","4"," ","N","o","t"," ","F",
    "o","u","n","d"," ","-"," ","G","E","T"," ","h","t","t","p","s",":","/",
    "/","r","e","g","i","s","t","r","y",".","n","p","m","j","s",".","o","r",
    "g","/","l","e","f","t","-","p","a","d","\n">>
OutUnlisted ==
  <<"n","p","m"," ","E","R","R","!"," ","4","0","4"," ","N","o","t"," ","F",
    "o","u","n","d"," ","-"," ","G","E","T"," ","h","t","t","p","s",":","/",
    "/","r","e","g","i","s","t","r","y",".","n","p","m","j","s",".","o","r",
    "g","/","n","o","p","e">>
OutInherited ==
  <<"n","p","m"," ","E","R","R","!"," ","4","0","4"," ","N","o","t"," ","F",
    "o","u","n","d"," ","-"," ","G","E","T"," ","h","t","t","p","s",":","/",
    "/","r","e","g","i","s","t","r","y",".","n","p","m","j","s",".","o","r",
    "g","/","c","o","n","s","t","r","u","c","t","o","r">>
OutMalformed ==
  <<"4","0","4"," ","N","o","t"," ","F","o","u","n","d"," ","-"," ","G","E",
    "T"," ","h","t","t","p","s",":","/","/","r","e","g","i","s","t","r","y",
    ".","n","p","m","j","s",".","o","r","g","/","%","z","z">>
OutCode ==
  <<"n","p","m"," ","E","R","R","!"," ","c","o","d","e"," ","E","4","0",
    "4">>
OutResolve ==
  <<"n","p","m"," ","E","R","R","!"," ","c","o","d","e"," ","E","R","E","S",
    "O","L","V","E">>
OutTwo ==
  <<"n","p","m"," ","E","R","R","!"," ","4","0","4"," ","N","o","t"," ","F",
    "o","u","n","d"," ","-"," ","G","E","T"," ","h","t","t","p","s",":","/",
    "/","r","e","g","i","s","t","r","y",".","n","p","m","j","s",".","o","r",
    "g","/","n","o","p","e","\n","n","p","m"," ","E","R","R","!"," ","4",
    "0","4"," ","N","o","t"," ","F","o","u","n","d"," ","-"," ","G","E","T",
    " ","h","t","t","p","s",":","/","/","r","e","g","i","s","t","r","y",".",
    "n","p","m","j","s",".","o","r","g","/","m","o","m","e","n","t">>
OutNone == <<>>
Outputs ==
  {OutLucide, OutMoment, OutLeftPad, OutUnlisted, OutInherited,
   OutMalformed, OutCode, OutResolve, OutTwo, OutNone}

Str404 == <<"4","0","4">>
StrNotFound == <<"N","o","t"," ","F","o","u","n","d">>
StrGet == <<"G","E","T">>
StrHttp == <<"h","t","t","p">>
StrRegistry == <<":","/","/","r","e","g","i","s","t","r","y",".","n","p","m","j","s",".","o","r","g","/">>
StrProto == <<"_","_","p","r","o","t","o","_","_">>
StrObject == <<"[","o","b","j","e","c","t"," ","O","b","j","e","c","t","]">>
StrBraces == <<"{","}">>
HexDigits == <<"0","1","2","3","4","5","6","7","8","9","a","b","c","d","e","f">>
\* the characters from the space (32) to the tilde (126) but the grave
\* accent (96)
AsciiChars ==
  <<" ","!","\"","#","$","%","&","'","(",")","*","+",",","-",".","/","0",
    "1","2","3","4","5","6","7","8","9",":",";","<","=",">","?","@","A","B",
    "C","D","E","F","G","H","I","J","K","L","M","N","O","P","Q","R","S","T",
    "U","V","W","X","Y","Z","[","\\","]","^","_","a","b","c","d","e","f",
    "g","h","i","j","k","l","m","n","o","p","q","r","s","t","u","v","w","x",
    "y","z","{","|","}","~">>

\* /npm\s+install|npm\s+i\b/.test(command) (line 767)
IsNpmInstall(s) ==
  \E k \in 0..Len(s) :
    /\ MatchAt(s, StrNpm, k)
    /\ SkipSpaces(s, k + 3) > k + 3
    /\ LET j == SkipSpaces(s, k + 3)
       IN \/ MatchAt(s, StrInstall, j)
          \/ MatchAt(s, <<"i">>, j) /\ WordEndsAt(s, j + 1)
\* the end of the run of [^\s] that starts at place k
RECURSIVE SkipSolid(_, _)
SkipSolid(s, k) ==
  IF k < Len(s) /\ ~IsSpace(s[k + 1]) THEN SkipSolid(s, k + 1) ELSE k
\* where the group of
\* /404\s+Not Found\s+-\s+GET\s+https?:\/\/registry\.npmjs\.org\/([^\s]+)/
\* starts when the pattern matches at place k, else -1 (line 785)
GroupAt(s, k) ==
  LET a == SkipSpaces(s, k + 3)
      b == SkipSpaces(s, a + 9)
      c == SkipSpaces(s, b + 1)
      d == SkipSpaces(s, c + 3)
      e == IF MatchAt(s, <<"s">>, d + 4) THEN d + 5 ELSE d + 4
  IN IF /\ MatchAt(s, Str404, k) /\ a > k + 3
        /\ MatchAt(s, StrNotFound, a) /\ b > a + 9
        /\ MatchAt(s, <<"-">>, b) /\ c > b + 1
        /\ MatchAt(s, StrGet, c) /\ d > c + 3
        /\ MatchAt(s, StrHttp, d)
        /\ MatchAt(s, StrRegistry, e)
        /\ SkipSolid(s, e + Len(StrRegistry)) > e + Len(StrRegistry)
     THEN e + Len(StrRegistry)
     ELSE -1
\* notFoundMatch[1]: the group of the first match, None without a match
NotFoundMatch(s) ==
  LET at == {k \in 0..Len(s) : GroupAt(s, k) # -1}
  IN IF at = {} THEN None
     ELSE LET k == CHOOSE x \in at : \A y \in at : x <= y
          IN Some(Slice(s, GroupAt(s, k), SkipSolid(s, GroupAt(s, k))))
HexValue(c) ==
  LET d == ToLower(c)
  IN IF d \in Range(HexDigits)
     THEN (CHOOSE k \in 1..16 : HexDigits[k] = d) - 1
     ELSE -1
\* decodeURIComponent: %XX becomes the character numbered XX; None when it
\* throws URIError, as it does on a % with no two hex digits behind it or on
\* bytes that are not UTF-8.  Of the escapes it takes, those of a printable
\* character are the ones drawn here.
CharOfCode(code) ==
  IF code \in 32..95 THEN Some(AsciiChars[code - 31])
  ELSE IF code \in 97..126 THEN Some(AsciiChars[code - 32])
  ELSE None
RECURSIVE decodeURIComponent(_)
decodeURIComponent(s) ==
  IF s = <<>> THEN Some(<<>>)
  ELSE IF s[1] # "%"
  THEN LET rest == decodeURIComponent(Tail(s))
       IN IF rest = None THEN None ELSE Some(<<s[1]>> \o Get(rest))
  ELSE IF Len(s) < 3 \/ HexValue(s[2]) = -1 \/ HexValue(s[3]) = -1 THEN None
  ELSE LET code == 16 * HexValue(s[2]) + HexValue(s[3])
           rest == decodeURIComponent(SliceFrom(s, 3))
       IN IF CharOfCode(code) = None \/ rest = None THEN None
          ELSE Some(CharOfCode(code) \o Get(rest))
\* badPackage (line 791): None when decodeURIComponent throws
BadPackage(group) ==
  IF decodeURIComponent(group) = None THEN None
  ELSE Some(ReplaceAll(ReplaceAll(Get(decodeURIComponent(group)),
                                  <<"%", "2", "f">>, <<"/">>),
                       <<"%", "2", "F">>, <<"/">>))
\* badPackage in deps: a key of the table or of Object.prototype
In(name, deps) == name \in DOMAIN deps \/ name \in Keys(ObjectPrototype)
\* one table of dependencies behind lines 803-817.  A name that is there
\* only by inheritance has a function for version, which JSON.stringify
\* leaves out, but for __proto__, which has the prototype: an empty object.
RetryFixDeps(deps, badPackage) ==
  IF ~In(badPackage, deps) THEN deps
  ELSE IF Property(PACKAGE_NAME_CORRECTIONS, badPackage) = None
  THEN Del(deps, badPackage)
  ELSE IF badPackage \in DOMAIN deps
  THEN Put(Del(deps, badPackage),
           Get(Property(PACKAGE_NAME_CORRECTIONS, badPackage)), deps[badPackage])
  ELSE IF badPackage = StrProto
  THEN Put(deps, StrObject, StrBraces)
  ELSE deps
\* the manifest when the loop of lines 800-818 is through
RetryFix(pkg, badPackage) ==
  [pkg EXCEPT
     !.dependencies = IF @ = None THEN @ ELSE Some(RetryFixDeps(Get(@), badPackage)),
     !.devDependencies = IF @ = None THEN @ ELSE Some(RetryFixDeps(Get(@), badPackage)),
     !.peerDependencies = IF @ = None THEN @ ELSE Some(RetryFixDeps(Get(@), badPackage))]
\* removed (lines 798-822)
Removed(pkg, badPackage) ==
  \E k \in 1..3 : pkg[DepKeys[k]] # None /\ In(badPackage, Get(pkg[DepKeys[k]]))

\* the action ids, types and payloads the runner is handed
ActionIds == {0, 1}
ActionTypes == {"file", "shell", "start", "pocketbase", "build"}
Contents == {1, 2}
\* the links the chain may grow to, the calls of runAction that return at
\* once, the writes of saveFileHistory under way at a time
MaxChain == 2
Links == 1..MaxChain
\* the calls of addAction and runAction that return at once
MaxIgnored == 1
MaxWrites == 1

MessageIds == {<<"m", "1">>}
MaxCalls == 3

VARIABLES
  messages,    \* #messages: the state of each message id, None when it has none
  stream,      \* the text the model produces for each message
  events,      \* the callbacks fired so far, in order
  output,      \* the fragments parse returned for each message, concatenated
  lastOp,      \* each message's last call: "none", "parse", "threw", "finalize"
  threw,       \* whether a parse call on the message has thrown
  finalized,   \* whether finalize has been called on the message
  nCalls,      \* the calls made on each message
  openedAt     \* the offset behind the opening tag of the message's last action

pvars == <<messages, stream, events, output, lastOp, threw, finalized, nCalls, openedAt>>

\* the state of an ActionRunner
VARIABLES
  actions,     \* actions: the state of each action id, None when not added
  chain,       \* the links of #currentExecutionPromise, in the order queued
  scheduled,   \* the running transitions addAction has queued and not yet run
  writes,      \* the writes of saveFileHistory under way
  ignored,     \* the calls of runAction that returned at once
  abortedPending, \* the actions aborted while their status was pending
  duplicates   \* the addAction calls that returned at once

rvars == <<actions, chain, scheduled, writes, ignored, abortedPending, duplicates>>

\* the workspace and the shell handler
VARIABLES
  command,     \* the content of the shell action
  packageJson, \* package.json in the workspace
  shell,       \* where #runShellAction is, what it has seen and done, and
               \* package.json as its command left it (found)
  scaffolded   \* whether onScaffoldViteForBannedFramework has been called

hvars == <<command, packageJson, shell, scaffolded>>

\* the workspace of the file, build and external-service handlers
VARIABLES
  files,       \* the paths there are in the workspace
  handled,     \* the last handler called: what it was given, the calls it
               \* made, what it returned or threw and the status left
  nHandled     \* the handlers called so far

wvars == <<files, handled, nHandled>>
vars == <<pvars, rvars, hvars, wvars>>

\* no handler has been called
NotHandled ==
  [type |-> "none", filePath |-> <<>>, content |-> "", fails |-> "none",
   aborted |-> FALSE, operation |-> "none", log |-> <<>>, threw |-> "none",
   result |-> "none", status |-> "pending"]
\* no package.json, and a shell handler that has not been called
NoFile == [kind |-> "absent", pkg |-> EmptyManifest, by |-> "none"]
ShellIdle ==
  [pc |-> "idle", sanitized |-> <<>>, issued |-> <<>>, exitCode |-> 0,
   output |-> <<>>, found |-> NoFile, pending |-> EmptyManifest, writes |-> 0,
   wrote |-> FALSE, retryExit |-> "none", result |-> "none"]

Delivered(m) == IF messages[m] = None THEN 0 ELSE Len(Get(messages[m]).lastInput)
Prefix(m, n) == SubSeq(stream[m], 1, n)

\* a new ActionRunner (lines 564-587): no action, the chain a resolved promise
RunnerInit ==
  /\ actions = [id \in ActionIds |-> None]
  /\ chain = <<>>
  /\ scheduled = <<>>
  /\ writes = 0
  /\ ignored = 0
  /\ abortedPending = {}
  /\ duplicates = 0

ParserInit ==
  /\ messages = [m \in MessageIds |-> None]
  /\ stream \in [MessageIds -> Streams]
  /\ events = <<>>
  /\ output = [m \in MessageIds |-> <<>>]
  /\ lastOp = [m \in MessageIds |-> "none"]
  /\ threw = [m \in MessageIds |-> FALSE]
  /\ finalized = [m \in MessageIds |-> FALSE]
  /\ nCalls = [m \in MessageIds |-> 0]
  /\ openedAt = [m \in MessageIds |-> -1]
  /\ RunnerInit
  /\ command = <<>>
  /\ packageJson = NoFile
  /\ shell = ShellIdle
  /\ scaffolded = FALSE
  /\ files = {}
  /\ handled = NotHandled
  /\ nHandled = 0

\* the look-up of a message's state as it would be were there one state for
\* all the messages
messagesGetShared(m) ==
  IF \E o \in DOMAIN messages : messages[o] # None
  THEN messages[CHOOSE o \in DOMAIN messages : messages[o] # None]
  ELSE None

\* this.#messages.get(messageId) (lines 76 and 293)
messagesGet(m) == messages[m]

\* parse(m, the first n characters of the stream), which returns or throws
ParsePrefix(m, n) ==
  \E input \in {Prefix(m, n)} :
  \E r \in {parse(messagesGet(m), m, input)} :
    /\ messages' = [messages EXCEPT ![m] = Some(r.state)]
    /\ events' = events \o r.events
    /\ output' = [output EXCEPT ![m] = @ \o r.output]
    /\ lastOp' = [lastOp EXCEPT ![m] = IF r.threw THEN "threw" ELSE "parse"]
    /\ threw' = [threw EXCEPT ![m] = @ \/ r.threw]
    /\ nCalls' = [nCalls EXCEPT ![m] = @ + 1]
    /\ openedAt' = [openedAt EXCEPT ![m] =
                      IF r.openedAt = -1 THEN @ ELSE r.openedAt]
    /\ UNCHANGED <<stream, finalized, rvars, hvars, wvars>>

\* a call of parse on m with a prefix that is no shorter than the last
ParseCall(m) ==
  /\ nCalls[m] < MaxCalls
  /\ \E n \in Delivered(m)..Len(stream[m]) : ParsePrefix(m, n)

\* finalize(m), which does nothing on a message without a state
FinalizeCall(m) ==
  /\ nCalls[m] < MaxCalls
  /\ \E r \in {IF messagesGet(m) = None
                THEN [state |-> NewMessageState, events |-> <<>>]
                ELSE finalize(Get(messagesGet(m)), m)} :
       /\ messages' = [messages EXCEPT ![m] = IF @ = None THEN None ELSE Some(r.state)]
       /\ events' = events \o r.events
       /\ lastOp' = [lastOp EXCEPT ![m] = "finalize"]
       /\ finalized' = [finalized EXCEPT ![m] = TRUE]
       /\ nCalls' = [nCalls EXCEPT ![m] = @ + 1]
       /\ UNCHANGED <<stream, output, threw, openedAt, rvars, hvars, wvars>>

ParserNext ==
  \E m \in MessageIds : ParseCall(m) \/ FinalizeCall(m)

SpecParser == ParserInit /\ [][ParserNext]_vars

ResetCursors ==
  /\ \E m \in MessageIds : nCalls[m] < MaxCalls
  /\ messages' = [m \in MessageIds |->
                    IF messages[m] = None THEN None
                    ELSE Some([Get(messages[m]) EXCEPT !.position = 0])]
  /\ lastOp' = [m \in MessageIds |-> "reset"]
  /\ nCalls' = [m \in MessageIds |-> IF nCalls[m] < MaxCalls THEN nCalls[m] + 1 ELSE nCalls[m]]
  /\ UNCHANGED <<stream, events, output, threw, finalized, openedAt, rvars, hvars, wvars>>
\* reset() (lines 283-285): the map of the messages is cleared
Reset ==
  /\ \E m \in MessageIds : nCalls[m] < MaxCalls
  /\ messages' = [m \in MessageIds |-> None]
  /\ lastOp' = [m \in MessageIds |-> "reset"]
  /\ nCalls' = [m \in MessageIds |-> IF nCalls[m] < MaxCalls THEN nCalls[m] + 1 ELSE nCalls[m]]
  /\ UNCHANGED <<stream, events, output, threw, finalized, openedAt, rvars, hvars, wvars>>

\* two messages on one parser, their calls interleaved: each stream comes
\* in prefixes cut at every CutEvery-th character or at its end, in at most
\* MaxInterleaved calls in all
TwoMessageIds == {<<"m", "1">>, <<"m", "2">>}
TwoStreams == {Render(DocFile), Render(DocShell)}
CutEvery == 6
MaxInterleaved == 4
Cuts(m) ==
  {n \in Delivered(m)..Len(stream[m]) : n % CutEvery = 0 \/ n = Len(stream[m])}
CallsInAll == nCalls[<<"m", "1">>] + nCalls[<<"m", "2">>]

TwoMessagesInit ==
  /\ messages = [m \in TwoMessageIds |-> None]
  /\ stream \in [TwoMessageIds -> TwoStreams]
  /\ events = <<>>
  /\ output = [m \in TwoMessageIds |-> <<>>]
  /\ lastOp = [m \in TwoMessageIds |-> "none"]
  /\ threw = [m \in TwoMessageIds |-> FALSE]
  /\ finalized = [m \in TwoMessageIds |-> FALSE]
  /\ nCalls = [m \in TwoMessageIds |-> 0]
  /\ openedAt = [m \in TwoMessageIds |-> -1]
  /\ RunnerInit
  /\ command = <<>>
  /\ packageJson = NoFile
  /\ shell = ShellIdle
  /\ scaffolded = FALSE
  /\ files = {}
  /\ handled = NotHandled
  /\ nHandled = 0

\* a call of parse on one of the two messages
InterleavedParse(m) ==
  /\ CallsInAll < MaxInterleaved
  /\ \E n \in Cuts(m) : ParsePrefix(m, n)

\* a call of finalize on one of the two messages
InterleavedFinalize(m) ==
  /\ CallsInAll < MaxInterleaved
  /\ FinalizeCall(m)

TwoMessagesNext ==
  \E m \in TwoMessageIds : InterleavedParse(m) \/ InterleavedFinalize(m)

SpecTwoMessages == TwoMessagesInit /\ [][TwoMessagesNext]_vars

\* a parser whose owner may reset it between the calls
ResetNext == ParserNext \/ Reset
SpecReset == ParserInit /\ [][ResetNext]_vars


(***************************************************************************)
(* The ActionRunner.  #currentExecutionPromise is a chain of links, one    *)
(* per accepted runAction: link k is                                       *)
(*   P(k) = P(k-1).then(() => #executeAction(id, isStreaming)).catch(log)  *)
(* with P(0) the resolved promise of construction.  A link is "queued"     *)
(* until its callback runs, then in "handler" (the handler of its action   *)
(* is awaited) or, for a start action, in "delay" (the timer of 2000 ms is *)
(* awaited while the command runs unawaited), then "settled": P(k) is      *)
(* fulfilled, whatever the handler did, since the catch swallows a throw.  *)
(* The callbacks a promise holds run in the order they were registered, so *)
(* the running transitions addAction registered on P(k-1) all run before   *)
(* link k starts.                                                          *)
(***************************************************************************)
Terminal == {"complete", "aborted", "failed"}
Exists(id) == actions[id] # None
ActionOf(id) == Get(actions[id])
\* P(k) as it would be did a start link not hold the chain for its timer
PromiseSettledButStart(k) ==
  IF k = 0 THEN TRUE ELSE chain[k].phase \in {"settled", "delay"}

\* a link as it would settle were the promise of #executeAction not returned
\* to the chain (line 638): as soon as its callback has run
PromiseSettledAtStart(k) == IF k = 0 THEN TRUE ELSE chain[k].phase # "queued"
\* P(k) is fulfilled
PromiseSettled(k) == IF k = 0 THEN TRUE ELSE chain[k].phase = "settled"

\* { ...r, ...u }
Spread(r, u) == [f \in DOMAIN r |-> IF f \in DOMAIN u THEN u[f] ELSE r[f]]
\* #updateAction(id, newState) (lines 912-916)
updateAction(id, newState) ==
  [actions EXCEPT ![id] = Some(Spread(Get(@), newState))]

\* addAction as it would be without the test for a registered id
AddActionAgain(id) ==
  /\ Exists(id) => ignored + duplicates < MaxIgnored
  /\ duplicates' = IF Exists(id) THEN duplicates + 1 ELSE duplicates
  /\ \E type \in IF Exists(id) THEN {ActionOf(id).type} ELSE ActionTypes :
       actions' = [actions EXCEPT ![id] =
                     Some([type |-> type, content |-> 0, status |-> "pending",
                           executed |-> FALSE, aborted |-> FALSE])]
  /\ scheduled' = Append(scheduled, [id |-> id, after |-> Len(chain)])
  /\ UNCHANGED <<chain, writes, ignored, abortedPending, pvars, hvars, wvars>>

\* addAction(data) (lines 589-616), data.action of any type
AddAction(id) ==
  IF Exists(id)
  THEN /\ ignored + duplicates < MaxIgnored
       /\ duplicates' = duplicates + 1
       /\ UNCHANGED <<actions, chain, scheduled, writes, ignored, abortedPending, pvars, hvars, wvars>>
  ELSE /\ \E type \in ActionTypes :
            actions' = [actions EXCEPT ![id] =
                          Some([type |-> type, content |-> 0, status |-> "pending",
                                executed |-> FALSE, aborted |-> FALSE])]
       /\ scheduled' = Append(scheduled, [id |-> id, after |-> Len(chain)])
       /\ UNCHANGED <<chain, writes, ignored, abortedPending, duplicates, pvars, hvars, wvars>>

\* runAction as it would be without the check for a streaming call
RunActionStreamsAll(id, content, isStreaming) ==
  /\ Exists(id)
  /\ IF ActionOf(id).executed
     THEN /\ ignored + duplicates < MaxIgnored
          /\ ignored' = ignored + 1
          /\ UNCHANGED <<actions, chain>>
     ELSE /\ Len(chain) < MaxChain
          /\ actions' = updateAction(id, [content |-> content,
                                          executed |-> ~isStreaming])
          /\ chain' = Append(chain, [id |-> id, isStreaming |-> isStreaming,
                                     type |-> ActionOf(id).type,
                                     phase |-> "queued", command |-> "none",
                                     threw |-> "none", abortedThen |-> FALSE,
                                     alert |-> FALSE, rejected |-> FALSE,
                                     exit |-> None])
          /\ UNCHANGED ignored
  /\ UNCHANGED <<scheduled, writes, abortedPending, duplicates, pvars, hvars, wvars>>

\* runAction as it would be without the check of the executed flag
RunActionAgain(id, content, isStreaming) ==
  /\ Exists(id)
  /\ IF isStreaming /\ ActionOf(id).type # "file"
     THEN /\ ignored + duplicates < MaxIgnored
          /\ ignored' = ignored + 1
          /\ UNCHANGED <<actions, chain>>
     ELSE /\ Len(chain) < MaxChain
          /\ actions' = updateAction(id, [content |-> content,
                                          executed |-> ~isStreaming])
          /\ chain' = Append(chain, [id |-> id, isStreaming |-> isStreaming,
                                     type |-> ActionOf(id).type,
                                     phase |-> "queued", command |-> "none",
                                     threw |-> "none", abortedThen |-> FALSE,
                                     alert |-> FALSE, rejected |-> FALSE,
                                     exit |-> None])
          /\ UNCHANGED ignored
  /\ UNCHANGED <<scheduled, writes, abortedPending, duplicates, pvars, hvars, wvars>>

\* runAction(data, isStreaming) (lines 618-647) on an action that was added,
\* up to the await; data.action carries the content given
RunAction(id, content, isStreaming) ==
  /\ Exists(id)
  /\ IF ActionOf(id).executed \/ (isStreaming /\ ActionOf(id).type # "file")
     THEN /\ ignored + duplicates < MaxIgnored
          /\ ignored' = ignored + 1
          /\ UNCHANGED <<actions, chain>>
     ELSE /\ Len(chain) < MaxChain
          /\ actions' = updateAction(id, [content |-> content,
                                          executed |-> ~isStreaming])
          /\ chain' = Append(chain, [id |-> id, isStreaming |-> isStreaming,
                                     type |-> ActionOf(id).type,
                                     phase |-> "queued", command |-> "none",
                                     threw |-> "none", abortedThen |-> FALSE,
                                     alert |-> FALSE, rejected |-> FALSE,
                                     exit |-> None])
          /\ UNCHANGED ignored
  /\ UNCHANGED <<scheduled, writes, abortedPending, duplicates, pvars, hvars, wvars>>

\* the abort of an action (lines 606-609)
Abort(id) ==
  /\ Exists(id)
  /\ actions' = updateAction(id, [aborted |-> TRUE, status |-> "aborted"])
  /\ abortedPending' = IF ActionOf(id).status = "pending"
                       THEN abortedPending \cup {id} ELSE abortedPending
  /\ UNCHANGED <<chain, scheduled, writes, ignored, duplicates, pvars, hvars, wvars>>

ScheduledRunningAtOnce ==
  /\ scheduled # <<>>
  /\ actions' = updateAction(Head(scheduled).id, [status |-> "running"])
  /\ scheduled' = Tail(scheduled)
  /\ UNCHANGED <<chain, writes, ignored, abortedPending, duplicates, pvars, hvars, wvars>>
\* the callback addAction registered on the chain (lines 613-615)
ScheduledRunning ==
  /\ scheduled # <<>>
  /\ PromiseSettled(Head(scheduled).after)
  /\ actions' = updateAction(Head(scheduled).id, [status |-> "running"])
  /\ scheduled' = Tail(scheduled)
  /\ UNCHANGED <<chain, writes, ignored, abortedPending, duplicates, pvars, hvars, wvars>>

\* #executeAction as it would be were it called at once, not chained
ExecuteActionUnchained(k) ==
  /\ k <= Len(chain)
  /\ chain[k].phase = "queued"
  /\ actions' = updateAction(chain[k].id, [status |-> "running"])
  /\ chain' = [chain EXCEPT
                 ![k].phase = IF chain[k].type = "start" THEN "delay" ELSE "handler",
                 ![k].command = IF chain[k].type = "start" THEN "running" ELSE @]
  /\ UNCHANGED <<scheduled, writes, ignored, abortedPending, duplicates, pvars, hvars, wvars>>

\* #executeAction up to its first await (lines 649-716): link k starts
ExecuteAction(k) ==
  /\ k <= Len(chain)
  /\ chain[k].phase = "queued"
  /\ PromiseSettled(k - 1)
  /\ \A j \in 1..Len(scheduled) : scheduled[j].after >= k
  /\ actions' = updateAction(chain[k].id, [status |-> "running"])
  /\ chain' = [chain EXCEPT
                 ![k].phase = IF chain[k].type = "start" THEN "delay" ELSE "handler",
                 ![k].command = IF chain[k].type = "start" THEN "running" ELSE @]
  /\ UNCHANGED <<scheduled, writes, ignored, abortedPending, duplicates, pvars, hvars, wvars>>

\* the status #executeAction leaves when the handler of a link has settled
\* (lines 664-673 and 718-742); "same" is no update
StatusAfter(link, outcome, aborted) ==
  IF outcome = "ok"
  THEN IF link.isStreaming THEN "running"
       ELSE IF aborted THEN "aborted" ELSE "complete"
  ELSE IF link.type = "pocketbase" THEN "failed"
  ELSE IF aborted THEN "same" ELSE "failed"

\* what the handler of an action of a type can throw: #runShellAction and
\* #runBuildAction throw an ActionCommandError on a non-zero exit (lines 777,
\* 992), and like the other handlers whatever the workspace or shell throws
Throws(type) ==
  IF type \in {"shell", "build", "start"} THEN {"commandError", "error"}
  ELSE {"error"}

\* onAlert as it would be called without the test of the error's class
AlertsAny(link, outcome, aborted) ==
  /\ link.type # "pocketbase"
  /\ ~aborted
  /\ outcome # "ok"

\* onAlert is called (lines 696-705 and 729-738): not from the inner catch
\* of a pocketbase action, which returns first (lines 666-672)
Alerts(link, outcome, aborted) ==
  /\ link.type # "pocketbase"
  /\ ~aborted
  /\ outcome = "commandError"

\* the link as it would end without the catch of lines 640-642
Uncaught(rejected) == IF rejected THEN "rejected" ELSE "settled"

\* the catch that ends every link (lines 640-642) logs what #executeAction
\* re-threw (line 741): the link is fulfilled
Caught(rejected) == "settled"

\* the handler of link k settles: it returns ("ok"), or throws an
\* ActionCommandError ("commandError") or something else ("error")
HandlerSettles(k, outcome) ==
  /\ k <= Len(chain)
  /\ chain[k].phase = "handler"
  /\ outcome \in {"ok"} \cup Throws(chain[k].type)
  /\ \E status \in {StatusAfter(chain[k], outcome, ActionOf(chain[k].id).aborted)} :
       actions' = IF status = "same" THEN actions
                  ELSE updateAction(chain[k].id, [status |-> status])
  /\ \E aborted \in {ActionOf(chain[k].id).aborted} :
     \E alert \in {Alerts(chain[k], outcome, aborted)} :
       chain' = [chain EXCEPT
                   ![k].phase = Caught(alert),
                   ![k].threw = IF outcome = "ok" THEN "none" ELSE outcome,
                   ![k].abortedThen = outcome # "ok" /\ aborted,
                   ![k].alert = alert,
                   ![k].rejected = alert]
  /\ UNCHANGED <<scheduled, writes, ignored, abortedPending, duplicates, pvars, hvars, wvars>>

\* the end of a start link as it would be were the command awaited
StartDelayElapsedAfterCommand(k) ==
  /\ k <= Len(chain)
  /\ chain[k].phase = "delay"
  /\ chain[k].command = "exited"
  /\ chain' = [chain EXCEPT ![k].phase = "settled"]
  /\ UNCHANGED <<actions, scheduled, writes, ignored, abortedPending, duplicates, pvars, hvars, wvars>>

\* the timer of a start action fires (lines 712-714): link k settles
StartDelayElapsed(k) ==
  /\ k <= Len(chain)
  /\ chain[k].phase = "delay"
  /\ chain' = [chain EXCEPT ![k].phase = "settled"]
  /\ UNCHANGED <<actions, scheduled, writes, ignored, abortedPending, duplicates, pvars, hvars, wvars>>

\* the exit codes a command is given: 0 and one other
ExitCodes == {0, 1}

\* #runStartAction as it would be did it not look at the exit code
runStartActionAnyExit(exitCode) == "ok"

\* #runStartAction once executeCommand has returned (lines 864-868, and
\* runStartActionHandler, file-handler.ts 136-146): it throws an
\* ActionCommandError unless the exit code is 0
runStartAction(exitCode) == IF exitCode # 0 THEN "commandError" ELSE "ok"

\* the promise of #runStartAction settles (lines 686-706 with 842-869):
\* executeCommand returned an exit code, or the shell threw ("error")
StartCommandSettles(k, exitCode, shellThrows) ==
  /\ k <= Len(chain)
  /\ chain[k].command = "running"
  /\ \E outcome \in {IF shellThrows THEN "error" ELSE runStartAction(exitCode)} :
     \E aborted \in {ActionOf(chain[k].id).aborted} :
       /\ outcome \in {"ok"} \cup Throws(chain[k].type)
       /\ chain' = [chain EXCEPT
                      ![k].command = "exited",
                      ![k].exit = IF shellThrows THEN None ELSE Some(exitCode),
                      ![k].threw = IF outcome = "ok" THEN "none" ELSE outcome,
                      ![k].abortedThen = outcome # "ok" /\ aborted,
                      ![k].alert = Alerts(chain[k], outcome, aborted)]
       /\ \E status \in {IF outcome = "ok" THEN "complete"
                         ELSE IF aborted THEN "same"
                         ELSE "failed"} :
            actions' = IF status = "same" THEN actions
                       ELSE updateAction(chain[k].id, [status |-> status])
  /\ UNCHANGED <<scheduled, writes, ignored, abortedPending, duplicates, pvars, hvars, wvars>>

\* saveFileHistory (lines 931-941): #runFileAction, called past the chain
SaveFileHistory ==
  /\ writes < MaxWrites
  /\ writes' = writes + 1
  /\ UNCHANGED <<actions, chain, scheduled, ignored, abortedPending, duplicates, pvars, hvars, wvars>>

\* a write of saveFileHistory settles
HistoryWritten ==
  /\ writes > 0
  /\ writes' = writes - 1
  /\ UNCHANGED <<actions, chain, scheduled, ignored, abortedPending, duplicates, pvars, hvars, wvars>>

\* a new ActionRunner beside a parser that has been handed nothing
RunnerAloneInit ==
  /\ messages = [m \in MessageIds |-> None]
  /\ stream = [m \in MessageIds |-> <<>>]
  /\ events = <<>>
  /\ output = [m \in MessageIds |-> <<>>]
  /\ lastOp = [m \in MessageIds |-> "none"]
  /\ threw = [m \in MessageIds |-> FALSE]
  /\ finalized = [m \in MessageIds |-> FALSE]
  /\ nCalls = [m \in MessageIds |-> 0]
  /\ openedAt = [m \in MessageIds |-> -1]
  /\ RunnerInit
  /\ command = <<>>
  /\ packageJson = NoFile
  /\ shell = ShellIdle
  /\ scaffolded = FALSE
  /\ files = {}
  /\ handled = NotHandled
  /\ nHandled = 0

RunnerNext ==
  \/ \E id \in ActionIds : AddAction(id)
  \/ \E id \in ActionIds, content \in Contents, isStreaming \in BOOLEAN :
       RunAction(id, content, isStreaming)
  \/ \E id \in ActionIds : Abort(id)
  \/ ScheduledRunning
  \/ \E k \in Links : ExecuteAction(k)
  \/ \E k \in Links, outcome \in {"ok", "commandError", "error"} :
       HandlerSettles(k, outcome)
  \/ \E k \in Links : StartDelayElapsed(k)
  \/ \E k \in Links, exitCode \in ExitCodes, shellThrows \in BOOLEAN :
       StartCommandSettles(k, exitCode, shellThrows)
  \/ SaveFileHistory
  \/ HistoryWritten

SpecRunner == RunnerAloneInit /\ [][RunnerNext]_vars

\* the callbacks on the chain run once the promise before them is settled,
\* every handler call returns or throws, and the timer of a start action
\* fires
RunnerFairness ==
  /\ WF_vars(ScheduledRunning)
  /\ \A k \in Links :
       /\ WF_vars(ExecuteAction(k))
       /\ WF_vars(\E outcome \in {"ok", "commandError", "error"} :
                    HandlerSettles(k, outcome))
       /\ WF_vars(StartDelayElapsed(k))
       /\ WF_vars(\E exitCode \in ExitCodes, shellThrows \in BOOLEAN :
                    StartCommandSettles(k, exitCode, shellThrows))

SpecRunnerFair == SpecRunner /\ RunnerFairness

(***************************************************************************)
(* The shell handler and the file handler on package.json.                 *)
(***************************************************************************)

\* #runShellAction up to the command it hands the shell (lines 745-762)
RunShellAction ==
  /\ shell.pc = "idle"
  /\ shell' = [shell EXCEPT !.pc = "command",
                            !.sanitized = sanitizeNpmCommand(command),
                            !.issued = <<sanitizeNpmCommand(command)>>]
  /\ UNCHANGED <<command, packageJson, scaffolded, pvars, rvars, wvars>>

\* the command is through (lines 763-777) and, when it failed on an install
\* with 404 in its output, #retryNpmInstallWithFix up to its write (lines
\* 784-822): an error thrown before the try leaves the handler as it is, one
\* thrown by readFile or JSON.parse is caught
CommandExits(exitCode, out) ==
  /\ shell.pc = "command"
  /\ LET seen == [shell EXCEPT !.exitCode = exitCode, !.output = out,
                               !.found = packageJson]
         group == NotFoundMatch(out)
         badPackage == BadPackage(Get(group))
     IN shell' =
          IF exitCode = 0
          THEN [seen EXCEPT !.pc = "done", !.result = "ok"]
          ELSE IF ~(IsNpmInstall(shell.sanitized) /\ IndexOf(out, Str404, 0) # -1)
          THEN [seen EXCEPT !.pc = "done", !.result = "commandError"]
          ELSE IF group = None
          THEN [seen EXCEPT !.pc = "done", !.result = "commandError"]
          ELSE IF badPackage = None
          THEN [seen EXCEPT !.pc = "done", !.result = "error"]
          ELSE IF packageJson.kind # "json"
          THEN [seen EXCEPT !.pc = "done", !.result = "commandError"]
          ELSE IF ~Removed(packageJson.pkg, Get(badPackage))
          THEN [seen EXCEPT !.pc = "done", !.result = "commandError"]
          ELSE [seen EXCEPT !.pc = "writing",
                            !.pending = RetryFix(packageJson.pkg, Get(badPackage))]
  /\ UNCHANGED <<command, packageJson, scaffolded, pvars, rvars, wvars>>

\* writeFile is through (lines 824-827, 835-839): the retry is handed to the
\* shell, or the error is caught
WriteFileSettles(ok) ==
  /\ shell.pc = "writing"
  /\ IF ok
     THEN /\ packageJson' = [kind |-> "json", pkg |-> shell.pending, by |-> "retry"]
          /\ shell' = [shell EXCEPT !.pc = "retry", !.writes = @ + 1, !.wrote = TRUE,
                                    !.issued = Append(@, StrNpmInstall)]
     ELSE /\ shell' = [shell EXCEPT !.pc = "done", !.writes = @ + 1,
                                    !.result = "commandError"]
          /\ UNCHANGED packageJson
  /\ UNCHANGED <<command, scaffolded, pvars, rvars, wvars>>

RetryAlwaysFixes(exit) == "ok"
\* what the handler makes of the retry (lines 829-839, 772-777)
RetryResult(exit) == IF exit = "0" THEN "ok" ELSE "commandError"
\* the retry is through: it left with a code or executeCommand threw
RetrySettles(exit) ==
  /\ shell.pc = "retry"
  /\ shell' = [shell EXCEPT !.pc = "done", !.retryExit = exit,
                            !.result = RetryResult(exit)]
  /\ UNCHANGED <<command, packageJson, scaffolded, pvars, rvars, wvars>>

\* the keys the file handler looks for in the text of a manifest
\* (file-handler.ts, lines 57 and 64)
BannedKeys ==
  {<<"n","e","x","t">>,
   <<"a","s","t","r","o">>,
   <<"@","a","n","g","u","l","a","r","/","c","o","r","e">>,
   <<"s","o","l","i","d","-","s","t","a","r","t">>,
   <<"@","b","u","i","l","d","e","r",".","i","o","/","q","w","i","k">>,
   <<"@","s","v","e","l","t","e","j","s","/","k","i","t">>,
   <<"n","u","x","t">>,
   <<"g","a","t","s","b","y">>,
   <<"@","r","e","m","i","x","-","r","u","n","/","r","e","a","c","t">>}
\* the pattern of the file handler matches: a key of the text is one of them
HasBannedKey(pkg) ==
  \E k \in 1..3 :
    pkg[DepKeys[k]] # None /\ DOMAIN Get(pkg[DepKeys[k]]) \cap BannedKeys # {}

\* fixPackageJson(fileContent) (file-handler.ts, line 60), the repair of the
\* manifests drawn evaluated once
Repaired == [m \in Manifests |-> fixPackageJson(m)]
FixedContent(payload) ==
  IF payload \in Manifests THEN Repaired[payload] ELSE fixPackageJson(payload)

\* runFileActionHandler on package.json (file-handler.ts, lines 25-95) when
\* its write is done: the text the model sent goes through fixPackageJson,
\* and the Vite files are scaffolded when that took the banned framework
\* out.  The runner has one handler under way at a time.
RunFileActionHandler(payload) ==
  /\ shell.pc \in {"idle", "done"}
  /\ LET fileContent == FixedContent(payload)
     IN /\ packageJson' = [kind |-> "json", pkg |-> fileContent, by |-> "file"]
        /\ scaffolded' = (\/ scaffolded
                          \/ HasBannedKey(payload) /\ ~HasBannedKey(fileContent))
  /\ UNCHANGED <<command, shell, pvars, rvars, wvars>>

\* the model sends the manifest of the workspace again
ResendFile ==
  /\ packageJson.kind = "json"
  /\ RunFileActionHandler(packageJson.pkg)

\* a workspace with or without a manifest and a shell action to run, beside
\* a parser and a runner that have been handed nothing
HandlersInit ==
  /\ messages = [m \in MessageIds |-> None]
  /\ stream = [m \in MessageIds |-> <<>>]
  /\ events = <<>>
  /\ output = [m \in MessageIds |-> <<>>]
  /\ lastOp = [m \in MessageIds |-> "none"]
  /\ threw = [m \in MessageIds |-> FALSE]
  /\ finalized = [m \in MessageIds |-> FALSE]
  /\ nCalls = [m \in MessageIds |-> 0]
  /\ openedAt = [m \in MessageIds |-> -1]
  /\ actions = [id \in ActionIds |-> None]
  /\ chain = <<>>
  /\ scheduled = <<>>
  /\ writes = 0
  /\ ignored = 0
  /\ abortedPending = {}
  /\ duplicates = 0
  /\ command \in Commands
  /\ packageJson \in Files
  /\ shell = ShellIdle
  /\ scaffolded = FALSE
  /\ files = {}
  /\ handled = NotHandled
  /\ nHandled = 0

HandlersNext ==
  \/ RunShellAction
  \/ \E exitCode \in {0, 1}, out \in Outputs : CommandExits(exitCode, out)
  \/ \E ok \in BOOLEAN : WriteFileSettles(ok)
  \/ \E exit \in {"0", "1", "throws"} : RetrySettles(exit)
  \/ \E payload \in Manifests : RunFileActionHandler(payload)
  \/ ResendFile

SpecHandlers == HandlersInit /\ [][HandlersNext]_vars

\* the names the two rules decide on: the keys of PACKAGE_NAME_CORRECTIONS
\* and the members of PACKAGES_TO_REMOVE
ListedNames == Keys(PACKAGE_NAME_CORRECTIONS) \cup PACKAGES_TO_REMOVE
\* an install command with the name as its one token, and a manifest with
\* the name as its one dependency
InstallOf(name) == StrNpmInstall \o <<" ">> \o name
DependencyOn(name) ==
  [EmptyManifest EXCEPT !.dependencies = Some(Put(NoDeps, name, <<"1">>))]

\* a shell action that installs a listed name, in a workspace whose manifest
\* has that name as its one dependency
NamesInit ==
  /\ messages = [m \in MessageIds |-> None]
  /\ stream = [m \in MessageIds |-> <<>>]
  /\ events = <<>>
  /\ output = [m \in MessageIds |-> <<>>]
  /\ lastOp = [m \in MessageIds |-> "none"]
  /\ threw = [m \in MessageIds |-> FALSE]
  /\ finalized = [m \in MessageIds |-> FALSE]
  /\ nCalls = [m \in MessageIds |-> 0]
  /\ openedAt = [m \in MessageIds |-> -1]
  /\ actions = [id \in ActionIds |-> None]
  /\ chain = <<>>
  /\ scheduled = <<>>
  /\ writes = 0
  /\ ignored = 0
  /\ abortedPending = {}
  /\ duplicates = 0
  /\ \E name \in ListedNames :
       /\ command = InstallOf(name)
       /\ packageJson = [kind |-> "json", pkg |-> DependencyOn(name), by |-> "none"]
  /\ shell = ShellIdle
  /\ scaffolded = FALSE
  /\ files = {}
  /\ handled = NotHandled
  /\ nHandled = 0

SpecNames == NamesInit /\ [][HandlersNext]_vars

(***************************************************************************)
(* The file, build and external-service handlers on the workspace.         *)
(***************************************************************************)
Workdir == <<"/", "h", "o", "m", "e", "/", "p", "r", "o", "j", "e", "c", "t">>
StrPackageJson == <<"p", "a", "c", "k", "a", "g", "e", ".", "j", "s", "o", "n">>
StrDot == <<".">>
StrViteConfig == <<"v", "i", "t", "e", ".", "c", "o", "n", "f", "i", "g", ".">>
StrPostcssConfig == <<"p", "o", "s", "t", "c", "s", "s", ".", "c", "o", "n", "f", "i", "g", ".">>
StrTailwindConfig == <<"t", "a", "i", "l", "w", "i", "n", "d", ".", "c", "o", "n", "f", "i", "g", ".">>
StrCjs == <<".", "c", "j", "s">>
PathIndexHtml == <<"i", "n", "d", "e", "x", ".", "h", "t", "m", "l">>
PathViteConfigTs == <<"v", "i", "t", "e", ".", "c", "o", "n", "f", "i", "g", ".", "t", "s">>
PathViteConfigJs == <<"v", "i", "t", "e", ".", "c", "o", "n", "f", "i", "g", ".", "j", "s">>
PathMainTsx == <<"s", "r", "c", "/", "m", "a", "i", "n", ".", "t", "s", "x">>
PathMainTs == <<"s", "r", "c", "/", "m", "a", "i", "n", ".", "t", "s">>
PathAppTsx == <<"s", "r", "c", "/", "A", "p", "p", ".", "t", "s", "x">>
PathAppJs == <<"s", "r", "c", "/", "A", "p", "p", ".", "j", "s">>
PathSrc == <<"s", "r", "c">>
PathApiPackageJson == <<"a", "p", "i", "/", "p", "a", "c", "k", "a", "g", "e", ".", "j", "s", "o", "n">>
PathTailwindJs == <<"t", "a", "i", "l", "w", "i", "n", "d", ".", "c", "o", "n", "f", "i", "g", ".", "j", "s">>
PathTailwindCjs == <<"t", "a", "i", "l", "w", "i", "n", "d", ".", "c", "o", "n", "f", "i", "g", ".", "c", "j", "s">>
PathPostcssMjs == <<"c", "o", "n", "f", "/", "p", "o", "s", "t", "c", "s", "s", ".", "c", "o", "n", "f", "i", "g", ".", "m", "j", "s">>
PathReadme == <<"R", "E", "A", "D", "M", "E", ".", "m", "d">>
PathViteConfigTsx == <<"v", "i", "t", "e", ".", "c", "o", "n", "f", "i", "g", ".", "t", "s", "x">>
PathPbSetup == <<"p", "b", "-", "s", "e", "t", "u", "p", ".", "j", "s">>
\* commonBuildDirs (part_008, line 92)
commonBuildDirs ==
  <<<<"d", "i", "s", "t">>,
    <<"b", "u", "i", "l", "d">>,
    <<"o", "u", "t">>,
    <<"o", "u", "t", "p", "u", "t">>,
    <<".", "n", "e", "x", "t">>,
    <<"p", "u", "b", "l", "i", "c">>>>

\* nodePath.relative(wc.workdir, action.filePath) for a path under the
\* workspace root (file-handler.ts, line 39)
relative(workdir, filePath) ==
  IF MatchAt(filePath, workdir \o <<"/">>, 0)
  THEN SliceFrom(filePath, Len(workdir) + 1)
  ELSE filePath
\* nodePath.dirname(relativePath) (line 40)
dirname(path) ==
  IF LastIndexOf(path, "/") <= 0 THEN StrDot ELSE Slice(path, 0, LastIndexOf(path, "/"))
\* nodePath.join(wc.workdir, dir) (part_008, line 96)
join(workdir, dir) == workdir \o <<"/">> \o dir

\* the patterns of the file handler (lines 55, 70, 72 and 84)
ConfigExts == {<<"t", "s">>, <<"j", "s">>, <<"m", "j", "s">>}
IsManifestPath(path) ==
  path = StrPackageJson \/ EndsWith(path, <<"/">> \o StrPackageJson)
IsViteConfig(path) == \E ext \in ConfigExts : EndsWith(path, StrViteConfig \o ext)
IsStyleConfig(path) ==
  \E ext \in ConfigExts :
    EndsWith(path, StrPostcssConfig \o ext) \/ EndsWith(path, StrTailwindConfig \o ext)
IsSourceFile(path) ==
  \E ext \in {<<".", "t", "s">>, <<".", "t", "s", "x">>, <<".", "j", "s", "x">>} :
    EndsWith(path, ext)
\* relativePath.replace(/\.(js|ts|mjs)$/, '.cjs') (line 75)
CjsPath(path) ==
  LET exts == {ext \in ConfigExts : EndsWith(path, StrDot \o ext)}
  IN IF exts = {} THEN path
     ELSE Slice(path, 0, Len(path) - Len(CHOOSE ext \in exts : TRUE) - 1) \o StrCjs

\* the text of a file that is no manifest, by the packages it requires and
\* the rule that rewrote it; a rule leaves its mark and the requires as
\* they are
Texts ==
  {[requires |-> r, fixedBy |-> "none"] :
     r \in {{"tailwindcss"}, {"tailwindcss", "tailwindcss-animate"}}}
\* extractTailwindPlugins (part_006, lines 524-538)
extractTailwindPlugins(content) ==
  content.requires \ {"tailwindcss", "autoprefixer", "postcss"}
fixViteConfig(content) == [content EXCEPT !.fixedBy = "fixViteConfig"]
fixTailwindOrPostcssConfig(content) ==
  [content EXCEPT !.fixedBy = "fixTailwindOrPostcssConfig"]
fixSourceImports(content) == [content EXCEPT !.fixedBy = "fixSourceImports"]

\* a call the handlers make on the workspace or on a callback: what, on
\* which path, with which content, by whom, and whether it returned
Call(op, path, content, by, ok) ==
  [op |-> op, path |-> path, content |-> content, by |-> by, ok |-> ok]
\* the calls of a log with the given operation
Calls(log, op) == SelectSeq(log, LAMBDA c : c.op = op)

\* scaffoldViteFiles (part_006, lines 600-655) on the files there are; its
\* mkdir throws when fails is "scaffold"
scaffoldViteFiles(fs, fails) ==
  LET index == IF PathIndexHtml \in fs THEN <<>>
               ELSE <<Call("writeFile", PathIndexHtml, "index", "scaffold", TRUE)>>
      config == IF PathViteConfigTs \in fs \/ PathViteConfigJs \in fs THEN <<>>
                ELSE <<Call("writeFile", PathViteConfigTs, "config", "scaffold", TRUE)>>
      mkdir == <<Call("mkdir", PathSrc, "", "scaffold", fails # "scaffold")>>
      main == IF PathMainTsx \in fs \/ PathMainTs \in fs THEN <<>>
              ELSE <<Call("writeFile", PathMainTsx, "main", "scaffold", TRUE)>>
      app == IF PathAppTsx \in fs \/ PathAppJs \in fs THEN <<>>
             ELSE <<Call("writeFile", PathAppTsx, "app", "scaffold", TRUE)>>
      log == IF fails = "scaffold" THEN index \o config \o mkdir
             ELSE index \o config \o mkdir \o main \o app
  IN [files |-> fs \cup {log[k].path : k \in {j \in 1..Len(log) : log[j].op = "writeFile"}},
      log |-> log, threw |-> fails = "scaffold"]

\* the callback the runner hands to the file handler: the scaffold of the
\* Vite files on the workspace
onScaffoldViteForBannedFramework(fs, fails) == scaffoldViteFiles(fs, fails)

RuleForSourceFirst(relativePath) ==
  IF IsSourceFile(relativePath) THEN "fixSourceImports"
  ELSE IF IsManifestPath(relativePath) THEN "fixPackageJson"
  ELSE IF IsViteConfig(relativePath) THEN "fixViteConfig"
  ELSE IF IsStyleConfig(relativePath) THEN "fixTailwindOrPostcssConfig"
  ELSE "none"
\* the rule the file handler picks for a path (lines 55, 70, 72 and 84)
RuleFor(relativePath) ==
  IF IsManifestPath(relativePath) THEN "fixPackageJson"
  ELSE IF IsViteConfig(relativePath) THEN "fixViteConfig"
  ELSE IF IsStyleConfig(relativePath) THEN "fixTailwindOrPostcssConfig"
  ELSE IF IsSourceFile(relativePath) THEN "fixSourceImports"
  ELSE "none"
\* the call of the rule on the content (lines 60, 71, 74 and 85)
Fixes(rule, relativePath, content) ==
  IF rule = "none" THEN <<>> ELSE <<Call(rule, relativePath, content, "file", TRUE)>>
\* fileContent and writePath as the rule leaves them (lines 52-86)
FileContent(rule, content) ==
  IF rule = "fixPackageJson" THEN FixedContent(content)
  ELSE IF rule = "fixViteConfig" THEN fixViteConfig(content)
  ELSE IF rule = "fixTailwindOrPostcssConfig" THEN fixTailwindOrPostcssConfig(content)
  ELSE IF rule = "fixSourceImports" THEN fixSourceImports(content)
  ELSE content
WritePath(rule, relativePath) ==
  IF rule = "fixTailwindOrPostcssConfig" THEN CjsPath(relativePath) ELSE relativePath
\* the handler's mkdir, whose error is caught and logged (lines 42-49)
MakeFolder(folder, fails) ==
  IF folder = StrDot THEN <<>>
  ELSE IF fails = "mkdir"
  THEN <<Call("mkdir", folder, "", "file", FALSE),
         Call("logError", folder, "Failed to create folder", "file", TRUE)>>
  ELSE <<Call("mkdir", folder, "", "file", TRUE)>>
ScaffoldsWhenHad(rule, content) ==
  rule = "fixPackageJson" /\ HasBannedKey(content)
\* whether the handler calls the scaffold (lines 56-69)
Scaffolds(rule, content) ==
  /\ rule = "fixPackageJson"
  /\ HasBannedKey(content)
  /\ ~HasBannedKey(FixedContent(content))
\* the callbacks of the handler before its write (lines 68 and 81-83)
Callbacks(rule, content, scaffold) ==
  IF Scaffolds(rule, content)
  THEN <<Call("onScaffoldViteForBannedFramework", <<>>, "", "file", ~scaffold.threw)>>
         \o scaffold.log
  ELSE IF rule = "fixTailwindOrPostcssConfig" /\ extractTailwindPlugins(content) # {}
  THEN <<Call("onEnsureTailwindPlugins", <<>>, extractTailwindPlugins(content),
              "file", TRUE)>>
  ELSE <<>>
WriteFileSwallowed(scaffold, before, writePath, fileContent, fails) ==
  [files |-> IF fails = "writeFile" THEN scaffold.files
             ELSE scaffold.files \cup {writePath},
   log |-> before \o <<Call("writeFile", writePath, fileContent, "file",
                            fails # "writeFile")>>
                  \o IF fails = "writeFile"
                     THEN <<Call("logError", writePath, "Failed to write file",
                                 "file", TRUE)>>
                     ELSE <<>>,
   threw |-> scaffold.threw]
\* the write of the handler and its catch (lines 88-94)
WriteFile(scaffold, before, writePath, fileContent, fails) ==
  IF scaffold.threw
  THEN [files |-> scaffold.files,
        log |-> before \o <<Call("logError", writePath, "Failed to write file",
                                 "file", TRUE)>>,
        threw |-> TRUE]
  ELSE IF fails = "writeFile"
  THEN [files |-> scaffold.files,
        log |-> before \o <<Call("writeFile", writePath, fileContent, "file", FALSE),
                            Call("logError", writePath, "Failed to write file",
                                 "file", TRUE)>>,
        threw |-> TRUE]
  ELSE [files |-> scaffold.files \cup {writePath},
        log |-> before \o <<Call("writeFile", writePath, fileContent, "file", TRUE)>>,
        threw |-> FALSE]

\* runFileActionHandler (file-handler.ts, lines 25-95) on the files there
\* are: the files it leaves, the calls it makes and whether it throws; fails
\* names the call that throws: the handler's mkdir, its writeFile, or the
\* mkdir of the scaffold
runFileActionHandler(fs, filePath, content, fails) ==
  CHOOSE r \in
    {WriteFile(scaffold,
               MakeFolder(dirname(relativePath), fails)
                 \o Fixes(RuleFor(relativePath), relativePath, content)
                 \o Callbacks(RuleFor(relativePath), content, scaffold),
               WritePath(RuleFor(relativePath), relativePath),
               FileContent(RuleFor(relativePath), content), fails) :
       relativePath \in {relative(Workdir, filePath)},
       scaffold \in {IF Scaffolds(RuleFor(relative(Workdir, filePath)), content)
                     THEN onScaffoldViteForBannedFramework(fs, fails)
                     ELSE [files |-> fs, log |-> <<>>, threw |-> FALSE]}} : TRUE

ProbedAll(fs) ==
  [k \in 1..Len(commonBuildDirs) |->
     Call("readdir", join(Workdir, commonBuildDirs[k]), "", "build",
          commonBuildDirs[k] \in fs)]
\* the directories runBuildActionHandler probes (part_008, lines 92-106):
\* up to the first there is, all when there is none
Probed(fs) ==
  LET there == {k \in 1..Len(commonBuildDirs) : commonBuildDirs[k] \in fs}
      last == IF there = {} THEN Len(commonBuildDirs)
              ELSE CHOOSE k \in there : \A j \in there : k <= j
  IN [k \in 1..last |->
        Call("readdir", join(Workdir, commonBuildDirs[k]), "", "build",
             commonBuildDirs[k] \in fs)]
\* runBuildActionHandler (part_008, lines 30-118) when the build has left
\* with exitCode and output: the alerts and probes, and what it returns or
\* throws
BuildResult(probes, exitCode, out) ==
  LET started == Call("onDeployAlert", <<>>, "running", "build", TRUE)
      found == probes[Len(probes)]
  IN IF exitCode # 0
     THEN [log |-> <<started, Call("onDeployAlert", <<>>, "failed", "build", TRUE)>>,
           threw |-> "commandError",
           result |-> [path |-> <<>>, exitCode |-> exitCode,
                       output |-> IF out = <<>> THEN "No Output Available" ELSE out]]
     ELSE [log |-> <<started, Call("onDeployAlert", <<>>, "complete", "build", TRUE)>>
                     \o probes,
           threw |-> "none",
           result |-> [path |-> IF found.ok THEN found.path
                                ELSE join(Workdir, commonBuildDirs[1]),
                       exitCode |-> exitCode, output |-> out]]
runBuildActionHandler(fs, exitCode, out) ==
  CHOOSE r \in {BuildResult(probes, exitCode, out) : probes \in {Probed(fs)}} : TRUE

PocketBaseResultSuccess(file, operation, filePath, content) ==
  [files |-> file.files,
   log |-> <<Call("onPocketBaseAlert", <<>>, content, "pocketbase", TRUE)>>
             \o IF operation = "collection" /\ filePath # None /\ Get(filePath) # <<>>
                THEN <<Call("runFileAction", Get(filePath), content, "pocketbase",
                            ~file.threw)>> \o file.log
                ELSE <<>>,
   threw |-> file.threw,
   result |-> IF file.threw THEN "threw" ELSE "success"]
\* runPocketBaseActionHandler (pocketbase-handler.ts, lines 15-58) for the
\* two operations of the type PocketBaseAction: the alert, the file action
\* it delegates, and what it returns
PocketBaseResult(file, operation, filePath, content) ==
  LET alert == Call("onPocketBaseAlert", <<>>, content, "pocketbase", TRUE)
      delegates == operation = "collection" /\ filePath # None /\ Get(filePath) # <<>>
  IN [files |-> file.files,
      log |-> IF delegates
              THEN <<alert, Call("runFileAction", Get(filePath), content, "pocketbase",
                                 ~file.threw)>> \o file.log
              ELSE <<alert>>,
      threw |-> file.threw,
      result |-> IF file.threw THEN "threw"
                 ELSE IF operation = "collection" THEN "success" ELSE "pending"]
runPocketBaseActionHandler(fs, operation, filePath, content, fails) ==
  CHOOSE r \in
    {PocketBaseResult(file, operation, filePath, content) :
       file \in {IF operation = "collection" /\ filePath # None /\ Get(filePath) # <<>>
                 THEN runFileActionHandler(fs, Get(filePath), content, fails)
                 ELSE [files |-> fs, log |-> <<>>, threw |-> FALSE]}} : TRUE

\* the files the model sends, by their paths under the workspace root
FilePaths ==
  {join(Workdir, p) :
     p \in {StrPackageJson, PathApiPackageJson, PathViteConfigTs, PathViteConfigTsx,
            PathTailwindJs, PathTailwindCjs, PathPostcssMjs, PathAppTsx, PathReadme}}
\* a framework package without the package the framework is named after
PkgAstroReact ==
  [EmptyManifest EXCEPT
     !.devDependencies = Some(Put(NoDeps, <<"@", "a", "s", "t", "r", "o", "j", "s", "/",
                                            "r", "e", "a", "c", "t">>, <<"4">>))]
\* a framework listed without a version
PkgUnset ==
  [EmptyManifest EXCEPT !.dependencies = Some(Put(NoDeps, <<"n", "e", "x", "t">>, <<>>))]
ManifestPayloads == {PkgNext, PkgAstro, PkgPlain, PkgAstroReact, PkgUnset}
\* what a file action can carry for a path
ContentsFor(filePath) ==
  IF IsManifestPath(relative(Workdir, filePath)) THEN ManifestPayloads ELSE Texts
\* the workspaces the handlers are called in: build directories, the files
\* of a Vite project
Workspaces ==
  {{}, {commonBuildDirs[1]}, {commonBuildDirs[2]}, {commonBuildDirs[3]},
   {commonBuildDirs[4]}, {commonBuildDirs[5]}, {commonBuildDirs[6]},
   {commonBuildDirs[3], commonBuildDirs[6]}, {commonBuildDirs[6], commonBuildDirs[1]},
   {PathIndexHtml}, {PathViteConfigJs, PathMainTs}, {PathAppJs, PathMainTsx},
   {PathIndexHtml, PathViteConfigTs, PathMainTsx, PathAppTsx, commonBuildDirs[2]}}

\* the handlers called so far
MaxHandled == 2

\* the status #executeAction leaves (action-runner.ts, lines 664-673 and
\* 718-742) on the running of line 652 when the handler has settled
StatusLeft(type, thrown, aborted) ==
  CHOOSE status \in
    {IF after = "same" THEN "running" ELSE after :
       after \in {StatusAfter([type |-> type, isStreaming |-> FALSE],
                              IF thrown THEN "error" ELSE "ok", aborted)}} : TRUE

\* the calls of a handler that can throw: those it makes
Fails(log) ==
  {"none"} \cup {"mkdir" : k \in {j \in 1..Len(log) : log[j].op = "mkdir"
                                                      /\ log[j].by = "file"}}
           \cup {"scaffold" : k \in {j \in 1..Len(log) : log[j].by = "scaffold"}}
           \cup {"writeFile" : k \in {j \in 1..Len(log) : log[j].op = "writeFile"
                                                          /\ log[j].by = "file"}}

\* a file action is executed: runFileActionHandler and the status the
\* runner leaves
RunFileAction(filePath, content, fails, aborted) ==
  /\ nHandled < MaxHandled
  /\ \E plain \in {runFileActionHandler(files, filePath, content, "none")} :
       fails \in Fails(plain.log)
  /\ \E r \in {runFileActionHandler(files, filePath, content, fails)} :
        /\ files' = r.files
        /\ handled' = [type |-> "file", filePath |-> filePath, content |-> content,
                       fails |-> fails, aborted |-> aborted, operation |-> "none",
                       log |-> r.log, threw |-> IF r.threw THEN "error" ELSE "none",
                       result |-> IF r.threw THEN "threw" ELSE "ok",
                       status |-> StatusLeft("file", r.threw, aborted)]
  /\ nHandled' = nHandled + 1
  /\ UNCHANGED <<pvars, rvars, hvars>>

\* a build action is executed: the build command leaves with a code and an
\* output
RunBuildAction(exitCode, out) ==
  /\ nHandled < MaxHandled
  /\ \E r \in {runBuildActionHandler(files, exitCode, out)} :
        handled' = [type |-> "build", filePath |-> <<>>, content |-> "",
                    fails |-> "none", aborted |-> FALSE, operation |-> "none",
                    log |-> r.log, threw |-> r.threw, result |-> r.result,
                    status |-> StatusLeft("build", r.threw # "none", FALSE)]
  /\ nHandled' = nHandled + 1
  /\ UNCHANGED <<files, pvars, rvars, hvars>>

\* an external-service action is executed
RunPocketBaseAction(operation, filePath, content, fails) ==
  /\ nHandled < MaxHandled
  /\ \E plain \in {runPocketBaseActionHandler(files, operation, filePath, content,
                                               "none")} :
       fails \in Fails(plain.log)
  /\ \E r \in {runPocketBaseActionHandler(files, operation, filePath, content, fails)} :
        /\ files' = r.files
        /\ handled' = [type |-> "pocketbase", filePath |-> filePath,
                       content |-> content, fails |-> fails, aborted |-> FALSE,
                       operation |-> operation, log |-> r.log,
                       threw |-> IF r.threw THEN "error" ELSE "none",
                       result |-> r.result,
                       status |-> StatusLeft("pocketbase", r.threw, FALSE)]
  /\ nHandled' = nHandled + 1
  /\ UNCHANGED <<pvars, rvars, hvars>>

\* a workspace and handlers not yet called, beside a parser, a runner and a
\* shell handler that have been handed nothing
WorkspaceInit ==
  /\ messages = [m \in MessageIds |-> None]
  /\ stream = [m \in MessageIds |-> <<>>]
  /\ events = <<>>
  /\ output = [m \in MessageIds |-> <<>>]
  /\ lastOp = [m \in MessageIds |-> "none"]
  /\ threw = [m \in MessageIds |-> FALSE]
  /\ finalized = [m \in MessageIds |-> FALSE]
  /\ nCalls = [m \in MessageIds |-> 0]
  /\ openedAt = [m \in MessageIds |-> -1]
  /\ actions = [id \in ActionIds |-> None]
  /\ chain = <<>>
  /\ scheduled = <<>>
  /\ writes = 0
  /\ ignored = 0
  /\ abortedPending = {}
  /\ duplicates = 0
  /\ command = <<>>
  /\ packageJson = NoFile
  /\ shell = ShellIdle
  /\ scaffolded = FALSE
  /\ files \in Workspaces
  /\ handled = NotHandled
  /\ nHandled = 0

WorkspaceNext ==
  \/ \E filePath \in FilePaths, fails \in {"none", "mkdir", "writeFile", "scaffold"} :
       \E content \in ContentsFor(filePath), aborted \in BOOLEAN :
         RunFileAction(filePath, content, fails, aborted)
  \/ \E exitCode \in {0, 1}, out \in {<<>>, <<"o", "k">>} : RunBuildAction(exitCode, out)
  \/ \E operation \in {"collection", "query"} :
     \E filePath \in {None, Some(<<>>), Some(join(Workdir, PathPbSetup)),
                      Some(join(Workdir, PathAppTsx))} :
     \E content \in Texts, fails \in {"none", "mkdir", "writeFile"} :
       RunPocketBaseAction(operation, filePath, content, fails)

SpecWorkspace == WorkspaceInit /\ [][WorkspaceNext]_vars

(***************************************************************************)
(* What the claims about the parser speak of.                              *)
(***************************************************************************)
IsStream(e) == e.kind = "actionStream"
NotStream(e) == e.kind # "actionStream"
EventsOf(m) == SelectSeq(events, LAMBDA e : e.messageId = m)
HasState(m) == messages[m] # None
StateOf(m) == Get(messages[m])
\* the step is a call of parse on m that hands it the buffer of the call before
SameBufferParse(m) ==
  /\ HasState(m)
  /\ lastOp[m] = "parse"
  /\ nCalls'[m] = nCalls[m] + 1
  /\ lastOp'[m] \in {"parse", "threw"}
  /\ Get(messages'[m]).lastInput = StateOf(m).lastInput
\* the step is a call of finalize on m
FinalizeStep(m) == nCalls'[m] = nCalls[m] + 1 /\ lastOp'[m] = "finalize"

\* C1: a second call of parse with the buffer of the call before leaves the
\* cursor where it is, returns no output and fires no callback of any kind,
\* whatever state the first call stopped in.
C1_SecondParseIsNoOp ==
  [][\A m \in MessageIds :
       SameBufferParse(m) =>
         /\ Get(messages'[m]).position = StateOf(m).position
         /\ output'[m] = output[m]
         /\ events' = events]_vars

\* the whole stream has been delivered to parse in two or more calls, each of
\* which returned
DeliveredInChunks(m) ==
  /\ HasState(m)
  /\ stream[m] \in ValidStreams
  /\ ~threw[m] /\ ~finalized[m]
  /\ nCalls[m] >= 2
  /\ StateOf(m).lastInput = stream[m]
OneShotEvents(m) == parse(None, m, stream[m]).events

LastIndex(es, kind) == SetMax({0} \cup {k \in 1..Len(es) : es[k].kind = kind})
\* an action of m has been opened and no close of it has been fired
LastActionUnclosed(m) ==
  /\ HasState(m)
  /\ LastIndex(EventsOf(m), "actionOpen") > LastIndex(EventsOf(m), "actionClose")
LastOpen(m) == EventsOf(m)[LastIndex(EventsOf(m), "actionOpen")]
\* what the buffer holds behind the opening tag of the last action, trimmed
\* and, for a file, cleaned and ended by a line feed
ContentSinceOpen(m) ==
  IF Get(LastOpen(m).action).type = Some(StrFile)
  THEN CleanFileContent(Trim(SliceFrom(StateOf(m).lastInput, openedAt[m])),
                        Get(LastOpen(m).action).filePath) \o <<"\n">>
  ELSE Trim(SliceFrom(StateOf(m).lastInput, openedAt[m]))
CloseOfLastOpen(m) ==
  [LastOpen(m) EXCEPT
     !.kind = "actionClose",
     !.action = Some([Get(LastOpen(m).action) EXCEPT !.content = ContentSinceOpen(m)])]
CloseOfArtifact(m) ==
  [EventsOf(m)[LastIndex(EventsOf(m), "artifactOpen")] EXCEPT !.kind = "artifactClose"]

\* C3: finalize on a message whose last action is unclosed fires one
\* onActionClose for that action, with the id given at its open and as content
\* all that is buffered behind its opening tag, trimmed and cleaned as on a
\* close, then one onArtifactClose, and leaves the message inside no action
\* and no artifact; a second finalize fires nothing.
C3_FinalizeClosesOnce ==
  [][\A m \in MessageIds :
       FinalizeStep(m) =>
         /\ LastActionUnclosed(m) =>
              /\ events' = events \o <<CloseOfLastOpen(m), CloseOfArtifact(m)>>
              /\ ~Get(messages'[m]).insideAction
              /\ ~Get(messages'[m]).insideArtifact
         /\ lastOp[m] = "finalize" => events' = events]_vars

\* what C4 speaks of in an event: its kind, its ids and what a close carries
EventView(e) ==
  [kind |-> e.kind, artifactId |-> e.artifactId, actionId |-> e.actionId,
   content |-> IF e.kind = "actionClose" THEN Get(e.action).content ELSE <<>>]
ViewOf(es) == [k \in 1..Len(es) |-> EventView(es[k])]
TrimmedBody(a) ==
  IF a.type = StrFile THEN Trim(a.body) \o <<"\n">> ELSE Trim(a.body)
CleanedBody(a) ==
  IF a.type = StrFile
  THEN CleanFileContent(Trim(a.body), a.filePath) \o <<"\n">>
  ELSE Trim(a.body)
\* the events of document d whose actions k.. carry the contents given
RECURSIVE ActionViews(_, _, _)
ActionViews(d, k, contents) ==
  IF k > Len(d.actions) THEN <<>>
  ELSE <<[kind |-> "actionOpen", artifactId |-> Some(d.id),
          actionId |-> Some(NumberToString(k - 1)), content |-> <<>>],
         [kind |-> "actionClose", artifactId |-> Some(d.id),
          actionId |-> Some(NumberToString(k - 1)), content |-> contents[k]]>>
       \o ActionViews(d, k + 1, contents)
DocViews(d, contents) ==
  <<[kind |-> "artifactOpen", artifactId |-> Some(d.id), actionId |-> None,
     content |-> <<>>]>>
    \o ActionViews(d, 1, contents)
    \o <<[kind |-> "artifactClose", artifactId |-> Some(d.id), actionId |-> None,
          content |-> <<>>]>>
\* one call of parse has been made on m, with the whole of a document
ParsedInOneCall(m) ==
  /\ HasState(m)
  /\ stream[m] \in ValidStreams
  /\ nCalls[m] = 1 /\ lastOp[m] = "parse"
  /\ StateOf(m).lastInput = stream[m]

\* C4 as claimed: one call on a well-formed buffer fires artifact-open with
\* the tag's id, for each action in order an open and a close with the ids
\* "0", "1", ..., then artifact-close; a file's close carries the trimmed body
\* and a line feed, any other action's close the trimmed body.
C4_OneCallTrimmedBodies ==
  \A m \in MessageIds :
    ParsedInOneCall(m) =>
      ViewOf(EventsOf(m)) =
        DocViews(DocOf(stream[m]),
                 [k \in 1..Len(DocOf(stream[m]).actions) |->
                    TrimmedBody(DocOf(stream[m]).actions[k])])

\* C4 as amended: the same events, where the close of a file whose path does
\* not end in ".md" carries the trimmed body with an enclosing code fence
\* taken off and "&lt;", "&gt;" decoded, and a line feed.
C4_OneCallCleanedBodies ==
  \A m \in MessageIds :
    ParsedInOneCall(m) =>
      ViewOf(EventsOf(m)) =
        DocViews(DocOf(stream[m]),
                 [k \in 1..Len(DocOf(stream[m]).actions) |->
                    CleanedBody(DocOf(stream[m]).actions[k])])

\* C4's case: the document with two actions, and the one with a fenced body,
\* each parsed in one call
C4_Witness ==
  \E m \in MessageIds :
    /\ ParsedInOneCall(m)
    /\ stream[m] \in {Render(DocQuery), Render(DocFenced)}
    /\ ViewOf(EventsOf(m))[Len(EventsOf(m))].kind = "artifactClose"


(***************************************************************************)
(* What the claims about the runner speak of.                              *)
(***************************************************************************)
\* the step is a call of runAction: it returned at once or queued a link
RunActionStep == ignored' = ignored + 1 \/ Len(chain') = Len(chain) + 1
\* the links of action id that are not streaming
RunsOf(id, links) == {k \in 1..Len(links) : links[k].id = id /\ ~links[k].isStreaming}

\* C5: once runAction with isStreaming = false has been accepted for an id
\* (executed is set), a later runAction for that id, streaming or not, queues
\* no handler and changes no state of the action; so an action has at most
\* one run that is not streaming.
C5_ExecutedRunsOnce ==
  [][/\ RunActionStep =>
          \A id \in ActionIds :
            (Exists(id) /\ ActionOf(id).executed) =>
              /\ actions'[id] = actions[id]
              /\ Len(chain') > Len(chain) => chain'[Len(chain')].id # id
     /\ \A id \in ActionIds : Cardinality(RunsOf(id, chain')) <= 1]_vars

\* C5's case: the run of a file action has been accepted and has failed, and
\* a later runAction has returned at once (every action there is is a file,
\* so that call was one for an action with executed set)
C5_Witness ==
  /\ ignored = 1
  /\ \A id \in ActionIds : Exists(id) => ActionOf(id).type = "file"
  /\ \E id \in ActionIds :
       /\ Exists(id) /\ ActionOf(id).executed
       /\ ActionOf(id).status = "failed"
       /\ Cardinality(RunsOf(id, chain)) = 1

\* C6: an action aborted while pending is aborted and never running
\* afterwards.
C6_AbortedPendingNeverRuns ==
  \A id \in abortedPending : ActionOf(id).status # "running"

\* the moves of a status that C7 allows; the move to aborted is the abort
\* call, which is none of the updates C7 lists
StatusMove(s, t) ==
  \/ s = t
  \/ s = "pending" /\ t = "running"
  \/ s = "running" /\ t \in Terminal
  \/ t = "aborted"

\* C7: a status moves along pending, running, then complete, aborted or
\* failed, and no update of the runner changes a status that is complete,
\* aborted or failed.
C7_StatusMovesForward ==
  [][\A id \in ActionIds :
       Exists(id) => StatusMove(ActionOf(id).status, Get(actions'[id]).status)]_vars

\* C8: at every moment at most one handler of an action that is no start
\* action has begun and not settled.
C8_OneHandlerAtATime ==
  Cardinality({k \in 1..Len(chain) : chain[k].phase = "handler"}) <= 1

\* C8's case: the handler of the second link runs, that of the first has
\* settled, neither a start action, and a write of saveFileHistory is under way
C8_Witness ==
  /\ Len(chain) = 2
  /\ chain[1].type # "start" /\ chain[1].phase = "settled"
  /\ chain[2].type # "start" /\ chain[2].phase = "handler"
  /\ chain[1].id # chain[2].id
  /\ writes = 1

\* C9: when runAction for A was accepted before runAction for B, A no start
\* action, then B's execution has not begun unless A's has settled, whatever
\* A's status.
C9_SubmissionOrder ==
  \A i \in Links, j \in Links :
    (i < j /\ j <= Len(chain) /\ chain[i].type # "start"
       /\ chain[j].phase # "queued") => chain[i].phase = "settled"

\* C9's case: A was aborted, its handler threw, and B, accepted after A, runs
C9_Witness ==
  /\ Len(chain) = 2
  /\ chain[1].id # chain[2].id
  /\ chain[1].type = "shell" /\ chain[1].phase = "settled"
  /\ ActionOf(chain[1].id).aborted
  /\ chain[2].phase = "handler"

\* C10: a start action does not hold up what is submitted after it: while
\* its command runs, the timer that ends its link can fire, and once it has
\* fired the next link can start.
C10_StartDoesNotBlock ==
  \A k \in Links :
    (k <= Len(chain) /\ chain[k].type = "start") =>
      /\ chain[k].phase = "delay" => ENABLED StartDelayElapsed(k)
      /\ (/\ chain[k].phase = "settled"
          /\ k < Len(chain)
          /\ chain[k + 1].phase = "queued"
          /\ scheduled = <<>>) => ENABLED ExecuteAction(k + 1)

\* C10's case: the command of a start action still runs, runAction for it
\* has resolved, and the handler of a file action submitted after it runs
C10_Witness ==
  /\ Len(chain) = 2
  /\ chain[1].type = "start" /\ chain[1].command = "running"
  /\ chain[1].phase = "settled"
  /\ chain[2].type = "file" /\ chain[2].phase = "handler"


\* the command of start link j was issued and start link i was queued before
StartsInOrder(i, j) ==
  /\ i < j /\ j <= Len(chain)
  /\ chain[i].type = "start" /\ chain[j].type = "start"
  /\ chain[j].command # "none"

\* C11: the command of a start action is not issued before every start
\* action submitted earlier has settled.
C11_StartAfterEarlierStartSettled ==
  \A i \in Links, j \in Links :
    StartsInOrder(i, j) => chain[i].command = "exited"

\* C11 as amended: the command of a start action is not issued before the
\* link of every start action submitted earlier has settled, which is when
\* the earlier command was issued and its timer has fired.
C11_StartAfterEarlierStartLink ==
  \A i \in Links, j \in Links :
    StartsInOrder(i, j) =>
      chain[i].phase = "settled" /\ chain[i].command # "none"

\* C11's case: the commands of two start actions both run
C11_Witness ==
  /\ Len(chain) = 2
  /\ chain[1].id # chain[2].id
  /\ StartsInOrder(1, 2)
  /\ chain[1].command = "running" /\ chain[2].command = "running"

\* link k can start as far as the links before it go: none of them is
\* queued or under way
Reached(k) ==
  /\ k <= Len(chain)
  /\ chain[k].phase = "queued"
  /\ IF k = 1 THEN TRUE ELSE chain[k - 1].phase \notin {"queued", "handler", "delay"}
  /\ \A j \in 1..Len(scheduled) : scheduled[j].after >= k

\* C12: whatever the handlers before it did, a link that is reached can
\* start, and no link ends rejected, so that the promise runAction awaits is
\* fulfilled.
C12_ChainProceeds ==
  \A k \in Links :
    /\ k <= Len(chain) => chain[k].phase # "rejected"
    /\ Reached(k) => ENABLED ExecuteAction(k)

\* C12's case: the handler of the first action threw an ActionCommandError
\* and #executeAction threw it again (line 741), and the second link of the
\* chain has run to completion
C12_Witness ==
  /\ Len(chain) = 2
  /\ chain[1].rejected
  /\ ActionOf(chain[1].id).status = "failed"
  /\ chain[2].id # chain[1].id
  /\ chain[2].phase = "settled"
  /\ ActionOf(chain[2].id).status = "complete"

\* the handler of link k, or its start command, throws in this step
ThrowsNow(k) ==
  /\ k <= Len(chain)
  /\ chain[k].threw = "none"
  /\ chain'[k].threw # "none"

\* C14: when a handler throws, onAlert is called if and only if what it
\* threw is an ActionCommandError and the action is not aborted; anything
\* else thrown for an action not aborted sets the status failed and calls
\* no onAlert.
C14_AlertOnlyForCommandError ==
  [][\A k \in Links :
       ThrowsNow(k) =>
         /\ chain'[k].alert <=> (/\ chain'[k].threw = "commandError"
                                 /\ ~ActionOf(chain[k].id).aborted)
         /\ (chain'[k].threw = "error" /\ ~ActionOf(chain[k].id).aborted) =>
              /\ Get(actions'[chain[k].id]).status = "failed"
              /\ ~chain'[k].alert]_vars

\* C14's case: a shell action failed with an ActionCommandError and an
\* alert, a file action with another error and none
C14_Witness ==
  /\ Len(chain) = 2
  /\ chain[1].type = "shell" /\ chain[1].threw = "commandError" /\ chain[1].alert
  /\ chain[2].type = "file" /\ chain[2].threw = "error" /\ ~chain[2].alert
  /\ ActionOf(chain[2].id).status = "failed"

\* C15: when the handler of an aborted action throws, the action is not
\* marked failed, its status stays what it was, and onAlert is not called.
C15_AbortedNotFailed ==
  [][\A k \in Links :
       (ThrowsNow(k) /\ ActionOf(chain[k].id).aborted) =>
         /\ Get(actions'[chain[k].id]).status # "failed"
         /\ Get(actions'[chain[k].id]).status = ActionOf(chain[k].id).status
         /\ ~chain'[k].alert]_vars

\* C16: a streaming runAction for an action that is no file changes nothing
\* and queues nothing; one for a file whose run was not accepted yet queues
\* a streaming link and leaves executed false, and when the handler of a
\* streaming link has returned the status is running and executed as before.
C16_StreamingOnlyFiles ==
  [][/\ \A id \in ActionIds, content \in Contents :
          (Exists(id) /\ RunAction(id, content, TRUE)) =>
             IF ActionOf(id).type # "file"
             THEN UNCHANGED <<actions, chain, scheduled>>
             ELSE ~ActionOf(id).executed =>
                    /\ ~Get(actions'[id]).executed
                    /\ Get(actions'[id]).status = ActionOf(id).status
                    /\ chain' = Append(chain, chain'[Len(chain')])
                    /\ chain'[Len(chain')].isStreaming
     /\ \A k \in Links :
          (/\ k <= Len(chain) /\ chain[k].isStreaming
           /\ HandlerSettles(k, "ok")) =>
             /\ Get(actions'[chain[k].id]).status = "running"
             /\ Get(actions'[chain[k].id]).executed = ActionOf(chain[k].id).executed]_vars

\* C16's case: a streaming runAction for a shell action returned at once
\* (no run was accepted yet, so the call was a streaming one), and the
\* streaming run of a file action has written the file
C16_Witness ==
  /\ ignored = 1
  /\ \A id \in ActionIds : Exists(id) /\ ~ActionOf(id).executed
  /\ \E id \in ActionIds : ActionOf(id).type # "file"
  /\ Len(chain) = 1
  /\ chain[1].isStreaming /\ chain[1].type = "file" /\ chain[1].phase = "settled"
  /\ ActionOf(chain[1].id).status = "running"

\* C17: addAction for an id that is registered changes nothing and schedules
\* nothing; for a new id it registers the action pending, not executed, and
\* schedules one transition; an id has at most one transition scheduled.
C17_AddActionOnce ==
  [][/\ \A id \in ActionIds :
          AddAction(id) =>
            IF Exists(id)
            THEN UNCHANGED <<actions, chain, scheduled>>
            ELSE /\ Get(actions'[id]).status = "pending"
                 /\ ~Get(actions'[id]).executed
                 /\ ~Get(actions'[id]).aborted
                 /\ scheduled' = Append(scheduled, [id |-> id, after |-> Len(chain)])
     /\ \A id \in ActionIds :
          Cardinality({j \in 1..Len(scheduled') : scheduled'[j].id = id}) <= 1]_vars

\* C17's case: addAction was called for a registered id, and an action
\* that was run and aborted is as its run left it
C17_Witness ==
  /\ duplicates = 1
  /\ \E id \in ActionIds :
       /\ Exists(id)
       /\ ActionOf(id).executed /\ ActionOf(id).aborted
       /\ ActionOf(id).status = "complete"


\* the stream with two external-service tags, the first of an unknown
\* operation, the second of none, and where these tags lie in it
BadStream == Render(DocService)
BadTagOpen1 == IndexOf(BadStream, ARTIFACT_ACTION_TAG_OPEN, 0)
BadTagEnd1 == IndexOf(BadStream, <<">">>, BadTagOpen1)
BadClose1 == IndexOf(BadStream, ARTIFACT_ACTION_TAG_CLOSE, BadTagEnd1)
BadTagOpen2 == IndexOf(BadStream, ARTIFACT_ACTION_TAG_OPEN, BadClose1)
BadTagEnd2 == IndexOf(BadStream, <<">">>, BadTagOpen2)
\* the step is a call of parse on m, which was not finalized
ParseStepOn(m) ==
  /\ ~finalized[m]
  /\ nCalls'[m] = nCalls[m] + 1
  /\ lastOp'[m] \in {"parse", "threw"}
\* the call of this step comes to the first, or to the second, of the two
\* tags with the whole tag in its buffer; a call that starts inside an
\* action comes to the second when the closing tag it finds is the first
ReachesBadTag(m) ==
  LET n == Len(Get(messages'[m]).lastInput)
      inside == HasState(m) /\ StateOf(m).insideAction
      pos == IF HasState(m) THEN StateOf(m).position ELSE 0
  IN \/ ~inside /\ pos <= BadTagOpen1 /\ n > BadTagEnd1
     \/ inside /\ pos <= BadClose1 /\ n > BadTagEnd2
     \/ ~inside /\ pos > BadTagEnd1 /\ pos <= BadTagOpen2 /\ n > BadTagEnd2

\* C18: a call of parse throws when, and only when, it comes to a complete
\* external-service tag whose operation is missing or unknown, and no
\* action-open event is fired for such a tag.
C18_InvalidOperationThrows ==
  [][\A m \in MessageIds :
       (stream[m] = BadStream /\ ParseStepOn(m)) =>
          /\ lastOp'[m] = "threw" <=> ReachesBadTag(m)
          /\ \A k \in 1..Len(events') : events'[k].kind # "actionOpen"]_vars

\* C18's case: parse threw at the first tag, and another call went on behind
\* its closing tag and threw at the second
C18_Witness ==
  \E m \in MessageIds :
    /\ stream[m] = BadStream
    /\ lastOp[m] = "threw"
    /\ nCalls[m] >= 2
    /\ StateOf(m).lastInput = BadStream
    /\ \E k \in 1..Len(events) : events[k].kind = "actionClose"

(***************************************************************************)
(* What the claims about the Auto-Fixer and the shell handler speak of.    *)
(***************************************************************************)
\* a token that names a known-wrong or a nonexistent package
KnownWrong(part) == BareName(part) \in Keys(PACKAGE_NAME_CORRECTIONS)
Nonexistent(part) == BareName(part) \in PACKAGES_TO_REMOVE
\* the tokens with each nonexistent one dropped and each known-wrong one
\* replaced by its correction, the version suffix kept
RECURSIVE ByTheTables(_)
ByTheTables(parts) ==
  IF parts = <<>> THEN <<>>
  ELSE IF Nonexistent(Head(parts)) THEN ByTheTables(Tail(parts))
  ELSE IF KnownWrong(Head(parts))
  THEN <<ValueOf(PACKAGE_NAME_CORRECTIONS, BareName(Head(parts)))
           \o VersionOf(Head(parts))>> \o ByTheTables(Tail(parts))
  ELSE <<Head(parts)>> \o ByTheTables(Tail(parts))
StrInstallLucide ==
  <<"n","p","m"," ","i","n","s","t","a","l","l"," ","l","u","c","i","d","e",
    "-","r","e","a","c","t">>

\* C19: the command the handler sanitized is the command it was given when
\* that has no npm install verb or no token naming a known-wrong or a
\* nonexistent package; on an install command its tokens are those of the
\* command with each nonexistent one dropped and each known-wrong one
\* replaced by its correction with the version suffix kept, and
\* "npm install @lucide/react" becomes "npm install lucide-react".
C19_SanitationByTheTables ==
  shell.pc # "idle" =>
    LET parts == SplitSpaces(command)
    IN /\ (\/ ~HasInstallVerb(command)
           \/ \A k \in 1..Len(parts) : ~KnownWrong(parts[k]) /\ ~Nonexistent(parts[k]))
          => shell.sanitized = command
       /\ HasInstallVerb(command)
          => SplitSpaces(shell.sanitized) = ByTheTables(parts)
       /\ command = CmdLucide => shell.sanitized = StrInstallLucide

\* C20: every rule gives its own output back when applied to it (the
\* command the handler sanitized, the manifest the file handler wrote), and
\* no correction target is a key of the correction table or a member of the
\* removal set.
C20_RulesIdempotent ==
  /\ shell.pc # "idle" => sanitizeNpmCommand(shell.sanitized) = shell.sanitized
  /\ packageJson.by = "file" => fixPackageJson(packageJson.pkg) = packageJson.pkg
  /\ \A k \in 1..Len(PACKAGE_NAME_CORRECTIONS) :
       /\ PACKAGE_NAME_CORRECTIONS[k][2] \notin Keys(PACKAGE_NAME_CORRECTIONS)
       /\ PACKAGE_NAME_CORRECTIONS[k][2] \notin PACKAGES_TO_REMOVE

\* the groups of all the matches of the pattern in the output
Matches(s) ==
  {Slice(s, GroupAt(s, k), SkipSolid(s, GroupAt(s, k))) :
     k \in {j \in 0..Len(s) : GroupAt(s, j) # -1}}
\* the URL names a package one of the tables of the manifest found has
NamesListed(group) ==
  /\ BadPackage(group) # None
  /\ shell.found.kind = "json"
  /\ \E k \in 1..3 :
       /\ shell.found.pkg[DepKeys[k]] # None
       /\ Get(BadPackage(group)) \in DOMAIN Get(shell.found.pkg[DepKeys[k]])
\* the install command has left with a code other than zero
InstallFailed ==
  /\ shell.pc \notin {"idle", "command"}
  /\ shell.exitCode # 0
  /\ IsNpmInstall(shell.sanitized)
\* its output names a registry 404 for a listed package
Listed404 == InstallFailed /\ \E group \in Matches(shell.output) : NamesListed(group)
\* the first registry 404 its output names is for a listed package
ListedFirst404 ==
  /\ InstallFailed
  /\ NotFoundMatch(shell.output) # None
  /\ NamesListed(Get(NotFoundMatch(shell.output)))
\* the handler never issues more than two shell commands nor more than one
\* manifest write
HandlerBounds == Len(shell.issued) <= 2 /\ shell.writes <= 1

\* C13 as the specification has it: when the handler is through with such a
\* failed install, it has rewritten the manifest once and issued exactly one
\* retry install, the action succeeded if and only if the retry left with
\* code zero and failed with the command error otherwise; and in every
\* outcome there are at most two shell commands and one manifest write.
C13_OneRetryAlways ==
  /\ (shell.pc = "done" /\ Listed404) =>
       /\ shell.writes = 1 /\ shell.wrote
       /\ Len(shell.issued) = 2 /\ shell.issued[2] = StrNpmInstall
       /\ shell.result = "ok" <=> shell.retryExit = "0"
       /\ shell.result # "ok" => shell.result = "commandError"
  /\ HandlerBounds

\* C13: when the handler is through with a failed install whose output
\* names, in its first registry 404, a package listed in the manifest, it has
\* called for one write of the manifest and, when that write succeeded,
\* issued exactly one retry install, and none when it failed; the action
\* succeeded if and only if a retry was issued and left with code zero, and
\* failed with the command error otherwise; and in every outcome there are
\* at most two shell commands and one manifest write.
C13_OneRetryAfterWrite ==
  /\ (shell.pc = "done" /\ ListedFirst404) =>
       /\ shell.writes = 1
       /\ IF shell.wrote
          THEN Len(shell.issued) = 2 /\ shell.issued[2] = StrNpmInstall
          ELSE Len(shell.issued) = 1
       /\ shell.result = "ok" <=> (shell.wrote /\ shell.retryExit = "0")
       /\ shell.result # "ok" => shell.result = "commandError"
  /\ HandlerBounds

\* C13's case: the install failed on a 404 for a listed package, the
\* manifest was rewritten with the name corrected, and the retry left with
\* code zero
C13_Witness ==
  /\ shell.pc = "done"
  /\ ListedFirst404
  /\ shell.wrote
  /\ shell.retryExit = "0"
  /\ shell.result = "ok"
  /\ packageJson.by = "retry"
  /\ packageJson.pkg # shell.found.pkg

\* the manifest has no package of the framework left in any of its three
\* tables, has react, react-dom, vite and @vitejs/plugin-react, and its
\* scripts dev, build and start are vite, vite build and vite preview
SwitchedToVite(pkg, f) ==
  /\ \A k \in 1..3 :
       pkg[DepKeys[k]] # None =>
         DOMAIN Get(pkg[DepKeys[k]]) \cap Range(BANNED_FRAMEWORKS[f]) = {}
  /\ pkg.dependencies # None
  /\ {StrReact, StrReactDom} \subseteq DOMAIN Get(pkg.dependencies)
  /\ pkg.devDependencies # None
  /\ {StrVite, StrPluginReact} \subseteq DOMAIN Get(pkg.devDependencies)
  /\ pkg.scripts # None
  /\ Get(pkg.scripts).dev = Some(StrVite)
  /\ Get(pkg.scripts).build = Some(StrViteBuild)
  /\ Get(pkg.scripts).start = Some(StrVitePreview)

\* the manifests drawn in which a package of a banned framework is found
BannedManifests == {m \in Manifests : BannedPackages(m) # {}}

\* C21: whenever the file handler is handed a manifest in which a package of
\* a banned framework is found, the manifest it writes has no package of
\* that framework in dependencies, devDependencies or peerDependencies, has
\* react, react-dom, vite and @vitejs/plugin-react, and has the scripts dev,
\* build and start vite, vite build and vite preview.
C21_BannedFrameworkReplaced ==
  [][\A payload \in BannedManifests \cup {packageJson.pkg} :
       (UNCHANGED shell /\ RunFileActionHandler(payload)) =>
         \A f \in {g \in 1..Len(BANNED_FRAMEWORKS) : Found(payload, BANNED_FRAMEWORKS[g])} :
           SwitchedToVite(packageJson'.pkg, f)]_vars

\* C21's case: the manifest of a project on Next.js and Gatsby, with their
\* packages in all three tables, has been repaired and written, the version
\* of react it listed kept
C21_Witness ==
  /\ packageJson.by = "file"
  /\ packageJson.pkg = fixPackageJson(PkgNext)
  /\ Found(PkgNext, BANNED_FRAMEWORKS[1])
  /\ \E f \in 2..Len(BANNED_FRAMEWORKS) : Found(PkgNext, BANNED_FRAMEWORKS[f])
  /\ Get(packageJson.pkg.dependencies)[StrReact] # VersionReact
  /\ Get(packageJson.pkg.peerDependencies) = NoDeps

(***************************************************************************)
(* What the claims about the action counter and reset speak of.            *)
(***************************************************************************)
\* state.actionId of the message, 0 while it has no state (line 83)
ActionCounter(m) == IF HasState(m) THEN StateOf(m).actionId ELSE 0
\* the action-open events fired for the message so far (lines 179-184)
ActionOpens(m) == SelectSeq(EventsOf(m), LAMBDA e : e.kind = "actionOpen")

\* C23: over the calls of parse and finalize on a message its action counter
\* never decreases, each call raises it by the number of action-open events
\* the call fires, and no two action-open events of the message carry the
\* same action id.
C23_CounterCountsOpens ==
  /\ [](\A m \in MessageIds :
         \A i, j \in 1..Len(ActionOpens(m)) :
           i # j => ActionOpens(m)[i].actionId # ActionOpens(m)[j].actionId)
  /\ [][\A m \in MessageIds :
         /\ ActionCounter(m)' >= ActionCounter(m)
         /\ ActionCounter(m)' - ActionCounter(m)
              = Len(ActionOpens(m)') - Len(ActionOpens(m))]_vars

\* C23's case: two actions were opened by different calls of parse with a
\* call of finalize in between or behind, and the counter stands at two
C23_Witness ==
  \E m \in MessageIds :
    /\ finalized[m]
    /\ nCalls[m] = 3
    /\ ActionCounter(m) = 2
    /\ Len(ActionOpens(m)) = 2

\* C24: after reset no message has a state; the next call of parse on a
\* message leaves the state, fires the events and returns the text that the
\* same call leaves, fires and returns on a message never seen before
\* (position 0, outside any artifact, action counter 0), and a call of
\* finalize fires nothing and leaves the message without a state.
C24_ResetForgets ==
  /\ [](\A m \in MessageIds : lastOp[m] = "reset" => ~HasState(m))
  /\ [][\A m \in MessageIds :
         (lastOp[m] = "reset" /\ nCalls'[m] = nCalls[m] + 1) =>
           IF lastOp'[m] \in {"parse", "threw"}
           THEN LET r == ParseFrom(NewMessageState, m, Get(messages'[m]).lastInput)
                IN /\ messages'[m] = Some(r.state)
                   /\ events' = events \o r.events
                   /\ output'[m] = output[m] \o r.output
                   /\ (lastOp'[m] = "threw") = r.threw
           ELSE lastOp'[m] = "finalize" => events' = events /\ messages'[m] = None]_vars

\* C24's case: an action was opened, the parser was reset, and the next call
\* of parse on the message opened the action again under the same id
C24_Witness ==
  \E m \in MessageIds :
    /\ lastOp[m] = "parse"
    /\ Len(ActionOpens(m)) = 2
    /\ ActionOpens(m)[1].actionId = ActionOpens(m)[2].actionId
    /\ ActionCounter(m) = 1

(***************************************************************************)
(* What the claim about the registration of an action speaks of.           *)
(***************************************************************************)
\* the links of the chain that were its last when an action still pending
\* was registered: #currentExecutionPromise as addAction read it (line 613)
RegisteredAfter(id) ==
  {scheduled[j].after : j \in {i \in 1..Len(scheduled) : scheduled[i].id = id}}

\* C25: a call of addAction that registers an action leaves it pending
\* whatever the state of the chain, and the status of a pending action
\* becomes another one, other than by a call of its abort, only when the
\* chain as it was at the registration has settled.
C25_PendingUntilChainSettles ==
  [][\A id \in ActionIds :
       /\ (~Exists(id) /\ Exists(id)') => ActionOf(id)'.status = "pending"
       /\ (/\ Exists(id)
           /\ ActionOf(id).status = "pending"
           /\ ActionOf(id)'.status # "pending"
           /\ ActionOf(id)'.aborted = ActionOf(id).aborted)
          => /\ ActionOf(id)'.status = "running"
             /\ RegisteredAfter(id) # {}
             /\ \A k \in RegisteredAfter(id) : PromiseSettled(k)]_vars

\* C25's case: an action was registered while the handler of a link was
\* under way, addAction has returned, and the action is pending
C25_Witness ==
  \E id \in ActionIds :
    /\ Exists(id)
    /\ ActionOf(id).status = "pending"
    /\ ~ActionOf(id).aborted
    /\ \E k \in RegisteredAfter(id) : k >= 1 /\ chain[k].phase = "handler"

(***************************************************************************)
(* What the claim about the two rules on package names speaks of.          *)
(***************************************************************************)
\* the name the shell action installs
Installed == SplitSpaces(command)[3]
\* what command sanitation made of the token: the tokens behind the verb,
\* none when the token was removed, the target when it was renamed
TokenOutcome == {SplitSpaces(shell.sanitized)[k] : k \in 3..Len(SplitSpaces(shell.sanitized))}
\* what manifest repair made of the dependency: the names in dependencies,
\* none when the dependency was removed, the target when it was renamed
DependencyOutcome == DOMAIN Get(packageJson.pkg.dependencies)

\* C26: when the shell handler has sanitized the install of a listed name
\* and the file handler has written the repaired manifest that had this
\* name as its one dependency, the dependency was renamed to the target the
\* token was renamed to, or removed as the token was.
C26_SameCorrections ==
  (/\ shell.pc # "idle"
   /\ Len(SplitSpaces(command)) = 3
   /\ Installed \in ListedNames
   /\ packageJson = [kind |-> "json", pkg |-> fixPackageJson(DependencyOn(Installed)),
                     by |-> "file"])
  => DependencyOutcome = TokenOutcome

(***************************************************************************)
(* What the claims about the workspace handlers speak of.                  *)
(***************************************************************************)
\* the handler has logged an error with the message
Logged(message) ==
  \E k \in 1..Len(handled.log) :
    handled.log[k].op = "logError" /\ handled.log[k].content = message
\* the handler has called the workspace's writeFile for the file of the action
WroteFile ==
  \E k \in 1..Len(handled.log) :
    handled.log[k].op = "writeFile" /\ handled.log[k].by = "file"

\* C22 as stated: an exception thrown by the workspace's mkdir or writeFile
\* during a file action is logged and re-thrown to the caller of the file
\* handler, and the action ends with status failed.
C22_IOErrorRethrown ==
  handled.type = "file" /\ handled.fails \in {"mkdir", "writeFile"}
    => /\ \E k \in 1..Len(handled.log) : handled.log[k].op = "logError"
       /\ handled.threw = "error"
       /\ handled.status = "failed"

\* C22 amended: an exception thrown by the workspace's writeFile during a
\* file action is logged and re-thrown to the caller of the file handler,
\* and the action, unless it was aborted, ends with status failed; an
\* exception thrown by the mkdir of the file's folder is logged and not
\* re-thrown, and the handler goes on to the write.
C22_WriteErrorRethrown ==
  handled.type = "file"
    => /\ handled.fails = "writeFile"
            => /\ Logged("Failed to write file")
               /\ handled.threw = "error"
               /\ ~handled.aborted => handled.status = "failed"
       /\ handled.fails = "mkdir"
            => /\ Logged("Failed to create folder")
               /\ WroteFile
               /\ handled.threw = "none"
               /\ ~handled.aborted => handled.status = "complete"
\* C22: a file action in a folder whose write threw after its mkdir went well
C22_Witness ==
  /\ handled.type = "file"
  /\ handled.fails = "writeFile"
  /\ ~handled.aborted
  /\ handled.threw = "error"
  /\ handled.status = "failed"
  /\ \E k \in 1..Len(handled.log) : handled.log[k].op = "mkdir" /\ handled.log[k].ok

\* the six directories in the order of the claim
ProbeOrder ==
  <<<<"d", "i", "s", "t">>, <<"b", "u", "i", "l", "d">>, <<"o", "u", "t">>,
    <<"o", "u", "t", "p", "u", "t">>, <<".", "n", "e", "x", "t">>,
    <<"p", "u", "b", "l", "i", "c">>>>
\* the paths the build handler has probed, in the order of the probes
ProbedPaths ==
  LET probes == SelectSeq(handled.log, LAMBDA c : c.op = "readdir")
  IN [k \in 1..Len(probes) |-> probes[k].path]
\* the first k directories of the claim, under the workspace root
FirstOf(k) == [j \in 1..k |-> Workdir \o <<"/">> \o ProbeOrder[j]]

\* C27: a build action whose command exits with code zero probes the
\* directories dist, build, out, output, .next, public in that order, stops
\* at the first that exists and returns it, and returns dist after probing
\* all six when none exists; a nonzero exit probes nothing and throws the
\* typed command-execution error after raising a build-failed deploy alert.
C27_BuildProbes ==
  handled.type = "build"
    => LET there == {k \in 1..6 : ProbeOrder[k] \in files}
       IN IF handled.result.exitCode = 0
          THEN /\ handled.threw = "none"
               /\ \A k \in there :
                    (\A j \in there : k <= j)
                      => /\ ProbedPaths = FirstOf(k)
                         /\ handled.result.path = FirstOf(k)[k]
               /\ there = {}
                    => /\ ProbedPaths = FirstOf(6)
                       /\ handled.result.path = FirstOf(1)[1]
          ELSE /\ ProbedPaths = <<>>
               /\ handled.threw = "commandError"
               /\ handled.log[Len(handled.log)] =
                    Call("onDeployAlert", <<>>, "failed", "build", TRUE)
\* C27: a build that found out and public in the workspace has probed dist,
\* build and out and returned out
C27_Witness ==
  /\ handled.type = "build"
  /\ handled.result.exitCode = 0
  /\ {ProbeOrder[3], ProbeOrder[6]} \subseteq files
  /\ Len(ProbedPaths) = 3
  /\ handled.result.path = FirstOf(3)[3]

\* the calls of the handler with the operation, by their places in the log
CallsOf(op) == {k \in 1..Len(handled.log) : handled.log[k].op = op}
\* a filePath was supplied with the action
Supplied == handled.filePath # <<>> /\ handled.filePath[1] # <<>>

\* C28: an external-service action raises exactly one external-service alert
\* carrying its payload; operation collection then delegates to the file
\* handler exactly once if and only if a filePath was supplied and reports
\* success, while operation query performs no workspace write and reports a
\* pending result.
C28_AlertThenDelegate ==
  handled.type = "pocketbase"
    => /\ Cardinality(CallsOf("onPocketBaseAlert")) = 1
       /\ \A k \in CallsOf("onPocketBaseAlert") :
            k = 1 /\ handled.log[k].content = handled.content
       /\ handled.operation = "collection"
            => /\ Cardinality(CallsOf("runFileAction")) = IF Supplied THEN 1 ELSE 0
               /\ \A k \in CallsOf("runFileAction") :
                    /\ handled.log[k].path = handled.filePath[1]
                    /\ handled.log[k].content = handled.content
               /\ ~Supplied => CallsOf("writeFile") = {}
               /\ handled.threw = "none" => handled.result = "success"
       /\ handled.operation = "query"
            => /\ CallsOf("runFileAction") = {}
               /\ CallsOf("writeFile") = {}
               /\ CallsOf("mkdir") = {}
               /\ handled.result = "pending"
\* C28: a collection with a filePath was handed to the file handler, which
\* wrote it, and success was reported
C28_Witness ==
  /\ handled.type = "pocketbase"
  /\ handled.operation = "collection"
  /\ Supplied
  /\ Cardinality(CallsOf("runFileAction")) = 1
  /\ Cardinality(CallsOf("writeFile")) = 1
  /\ handled.result = "success"

\* the path of the file action under the workspace root
PathHandled == SliceFrom(handled.filePath, Len(Workdir) + 1)
\* the Auto-Fixer rules, and the one of the first pattern the path matches
RuleNames ==
  {"fixPackageJson", "fixViteConfig", "fixTailwindOrPostcssConfig", "fixSourceImports"}
FirstMatching(path) ==
  IF IsManifestPath(path) THEN {"fixPackageJson"}
  ELSE IF IsViteConfig(path) THEN {"fixViteConfig"}
  ELSE IF IsStyleConfig(path) THEN {"fixTailwindOrPostcssConfig"}
  ELSE IF IsSourceFile(path) THEN {"fixSourceImports"}
  ELSE {}
\* the rules the handler has called, and the paths written
RulesChosen == {handled.log[k].op : k \in {j \in 1..Len(handled.log) : handled.log[j].op \in RuleNames}}
PathsWritten == {handled.log[k].path : k \in CallsOf("writeFile")}
\* the path with its extension replaced by cjs
WithCjs(path) == Slice(path, 0, LastIndexOf(path, ".")) \o <<".", "c", "j", "s">>
\* a style config is written under the extension cjs only
WrittenAsCjs ==
  IsStyleConfig(PathHandled) /\ ~IsManifestPath(PathHandled) /\ ~IsViteConfig(PathHandled)
    => \A k \in CallsOf("writeFile") :
         handled.log[k].by = "file" => handled.log[k].path = WithCjs(PathHandled)

NamesFramework(pkg) ==
  \E f \in 1..Len(BANNED_FRAMEWORKS) : \E k \in 1..3 :
    /\ pkg[DepKeys[k]] # None
    /\ BANNED_FRAMEWORKS[f][1] \in DOMAIN Get(pkg[DepKeys[k]])
\* the writes of the scaffold within the handler's calls
ScaffoldWrites(log) ==
  {k \in 1..Len(log) : log[k].op = "writeFile" /\ log[k].by = "scaffold"}
\* the scaffold was triggered as often as the claim has it
TriggeredAsClaimed ==
  Cardinality(CallsOf("onScaffoldViteForBannedFramework"))
    = IF /\ IsManifestPath(PathHandled)
         /\ NamesFramework(handled.content)
         /\ ~NamesFramework(FixedContent(handled.content))
      THEN 1 ELSE 0

StartExits(k) ==
  /\ k <= Len(chain)
  /\ chain[k].command = "running"
  /\ chain'[k].command = "exited"
  /\ chain'[k].exit # None

\* C31: when the command of a start action exits with a code other than 0
\* the handler throws the ActionCommandError, and the runner sets the status
\* to failed and raises the alert unless the action was aborted (then it
\* does neither); when it exits with 0 the status is set to complete
C31_NonzeroExitFails ==
  [][\A k \in Links : StartExits(k) =>
       IF Get(chain'[k].exit) # 0
       THEN /\ chain'[k].threw = "commandError"
            /\ IF ActionOf(chain[k].id).aborted
               THEN actions' = actions /\ ~chain'[k].alert
               ELSE /\ Get(actions'[chain[k].id]).status = "failed"
                    /\ chain'[k].alert
       ELSE /\ chain'[k].threw = "none"
            /\ Get(actions'[chain[k].id]).status = "complete"]_vars

\* a start action whose command exited with 1 is failed and has raised the
\* alert
C31_Witness ==
  \E k \in Links :
    /\ k <= Len(chain)
    /\ chain[k].type = "start"
    /\ chain[k].exit = Some(1)
    /\ chain[k].threw = "commandError"
    /\ chain[k].alert
    /\ ActionOf(chain[k].id).status = "failed"

\* ---------------------------------------------------------------------
\* The callbacks of a message over parse and finalize calls
\* ---------------------------------------------------------------------

IsActionEvent(e) == e.kind \in {"actionOpen", "actionStream", "actionClose"}
\* the action of the event at place i of es was opened before i and has not
\* been closed between its open and i
OpenAt(es, i) ==
  \E j \in 1..(i - 1) :
    /\ es[j].kind = "actionOpen"
    /\ es[j].actionId = es[i].actionId
    /\ \A c \in (j + 1)..(i - 1) :
         ~(es[c].kind = "actionClose" /\ es[c].actionId = es[i].actionId)
\* the event at place i of es comes behind an artifact-open whose close has
\* not been fired
InsideArtifactAtEvent(es, i) ==
  LastIndex(SubSeq(es, 1, i - 1), "artifactOpen")
    > LastIndex(SubSeq(es, 1, i - 1), "artifactClose")
WellNested(es) ==
  /\ \A i \in 1..Len(es) :
       es[i].kind \in {"actionStream", "actionClose"} => OpenAt(es, i)
  /\ \A i, j \in 1..Len(es) :
       (i < j /\ es[i].kind = "actionClose" /\ es[j].kind = "actionClose")
         => es[i].actionId # es[j].actionId
  /\ \A i \in 1..Len(es) : IsActionEvent(es[i]) => InsideArtifactAtEvent(es, i)

\* C32: over any sequence of parse and finalize calls on a message, the
\* calls of parse that throw included, every onActionStream and
\* onActionClose carries the id of an action opened by an earlier
\* onActionOpen and not yet closed, no action id is closed twice, and the
\* action events lie between an onArtifactOpen and its onArtifactClose.
C32_CallbacksWellNested == \A m \in MessageIds : WellNested(EventsOf(m))

\* the parse state of a message: all of MessageState but the buffer and the
\* artifact
ParseState(s) ==
  [position |-> s.position, insideArtifact |-> s.insideArtifact,
   insideAction |-> s.insideAction, currentAction |-> s.currentAction,
   actionId |-> s.actionId]
\* the state a call on m starts from (lines 76-87)
StateBefore(m) == IF HasState(m) THEN StateOf(m) ELSE NewMessageState
\* the step is a call of parse on m that throws at an external-service tag
ThrowsAtService(m) ==
  /\ stream[m] = BadStream
  /\ nCalls'[m] = nCalls[m] + 1
  /\ lastOp'[m] = "threw"
\* the events the step has fired
Fired == SubSeq(events', Len(events) + 1, Len(events'))

\* C33: a call of parse that throws at an external-service tag of an
\* invalid operation leaves the cursor, inside-artifact, inside-action, the
\* current action and the action counter as they were before the call, and
\* the call after it, with the same buffer, throws again and fires no
\* onActionClose.
C33_ThrowLeavesState ==
  [][\A m \in MessageIds :
       /\ ThrowsAtService(m) =>
            ParseState(Get(messages'[m])) = ParseState(StateBefore(m))
       /\ (/\ ThrowsAtService(m)
           /\ lastOp[m] = "threw"
           /\ Get(messages'[m]).lastInput = StateOf(m).lastInput)
            => \A i \in 1..Len(Fired) : Fired[i].kind # "actionClose"]_vars

\* parse(m, the buffer of the last call of parse), called in the state the
\* step leaves
ParseAgainAfter(m) == parse(messages'[m], m, Get(messages'[m]).lastInput)

\* C34: once finalize has closed an unclosed action or artifact of a
\* message, a call of parse with the buffer of the last parse call returns
\* no text and fires no callback.
C34_FinalizeIsTerminal ==
  [][\A m \in MessageIds :
       (FinalizeStep(m) /\ events' # events) =>
         /\ ParseAgainAfter(m).output = <<>>
         /\ ParseAgainAfter(m).events = <<>>]_vars

\* ---------------------------------------------------------------------
\* Delivery in growing prefixes against one call on the buffer
\* ---------------------------------------------------------------------

\* the buffer of the last call on m has come to parse in calls of growing
\* prefixes, and finalize has not been called
Delivered35(m) == HasState(m) /\ ~finalized[m]
\* one call of parse, on a new message, with the buffer of the last call on m
OneCall(m) == parse(None, m, StateOf(m).lastInput)

\* C35 as claimed: for every buffer and every delivery of it in growing
\* prefixes the artifact-open, action-open, action-close and artifact-close
\* events, with their data, are those of one call of parse on the buffer.
C35_EventsChunkInvariant ==
  \A m \in MessageIds :
    Delivered35(m) =>
      SelectSeq(EventsOf(m), NotStream) = SelectSeq(OneCall(m).events, NotStream)

\* the same of the deliveries in which no call of parse has thrown
EventsChunkInvariantUnlessThrown ==
  \A m \in MessageIds :
    (Delivered35(m) /\ ~threw[m]) =>
      SelectSeq(EventsOf(m), NotStream) = SelectSeq(OneCall(m).events, NotStream)

\* C36 as claimed: for every buffer and every delivery of it in growing
\* prefixes the fragments the calls of parse return, put together, are the
\* fragment one call of parse on the buffer returns.
C36_OutputChunkInvariant ==
  \A m \in MessageIds : Delivered35(m) => output[m] = OneCall(m).output

\* the whole of a well-formed stream has come to parse
WholeDelivered(m) ==
  /\ Delivered35(m)
  /\ stream[m] \in ValidStreams
  /\ StateOf(m).lastInput = stream[m]

CallOn(m) == nCalls'[m] = nCalls[m] + 1
\* what the parser holds and has given out for message m
OfMessage(m) == <<messages[m], output[m], EventsOf(m)>>

\* C37: with the calls on two message ids interleaved in any way, a call on
\* one message leaves the state, the output and the events of the other as
\* they are and fires only events that carry its own message id, and each
\* message delivered in growing prefixes has the output and (onActionStream
\* aside) the events of one call of parse, made alone, on its buffer.
C37_MessagesIsolated ==
  /\ [](\A m \in TwoMessageIds :
          (Delivered35(m) /\ ~threw[m]) =>
            /\ output[m] = OneCall(m).output
            /\ SelectSeq(EventsOf(m), NotStream)
                 = SelectSeq(OneCall(m).events, NotStream))
  /\ [][\A m \in TwoMessageIds :
         CallOn(m) =>
           /\ \A o \in TwoMessageIds \ {m} : OfMessage(o)' = OfMessage(o)
           /\ \A i \in 1..Len(Fired) : Fired[i].messageId = m]_vars

\* C37's case: each of the two messages has had two calls, the calls of the
\* one between those of the other, and both have fired events
C37_Witness ==
  /\ \A m \in TwoMessageIds : nCalls[m] = 2 /\ EventsOf(m) # <<>>
  /\ \E i, j, k \in 1..Len(events) :
       /\ i < j /\ j < k
       /\ events[i].messageId = events[k].messageId
       /\ events[i].messageId # events[j].messageId

\* ---------------------------------------------------------------------
\* Abort before the execution, and the end of every execution
\* ---------------------------------------------------------------------

\* link k is the first link of its action: its execution has not begun
FirstLinkOf(k) == \A j \in 1..(k - 1) : chain[j].id # chain[k].id
\* the step in which the chain comes to link k and #executeAction hands the
\* action to its handler (the command of a start action is issued)
Dispatched(k) ==
  /\ k <= Len(chain)
  /\ chain[k].phase = "queued"
  /\ chain'[k].phase \in {"handler", "delay"}

\* C38: an action aborted before its execution began is not handed to its
\* handler when the chain comes to it, and its status stays aborted.
C38_AbortedNotDispatched ==
  [][\A k \in Links :
       (/\ k <= Len(chain)
        /\ chain[k].phase = "queued"
        /\ FirstLinkOf(k)
        /\ ActionOf(chain[k].id).aborted
        /\ PromiseSettled(k - 1))
         => /\ ~Dispatched(k)
            /\ Get(actions'[chain[k].id]).status = "aborted"]_vars

\* link k is of an action that is not a start action and that runAction
\* took with isStreaming false
Accepted(k) ==
  /\ k <= Len(chain)
  /\ ~chain[k].isStreaming
  /\ chain[k].type # "start"

\* C39: every action that is not a start action and that runAction took with
\* isStreaming false comes to status complete, aborted or failed, and once
\* its execution has settled its status is one of the three, whenever
\* abort() is called.
C39_AcceptedActionsEnd ==
  /\ [](\A k \in Links :
          (Accepted(k) /\ chain[k].phase = "settled")
            => ActionOf(chain[k].id).status \in Terminal)
  /\ \A k \in Links :
       Accepted(k) ~> (Accepted(k) /\ ActionOf(chain[k].id).status \in Terminal)

=============================================================================
